---- MODULE Spec2Model ----
(***************************************************************************)
(* Contact persistence and force resolution of the linear DEM contact      *)
(* model (src/src/dem/contact/Linear.py): the property table, the contact  *)
(* and history stores with their two resolution strategies, the rebuild    *)
(* from an export, the force law and the accumulation onto the bodies.     *)
(*                                                                         *)
(* Floating point numbers are modelled as exact rationals <<n, d>> with    *)
(* d > 0 in lowest terms; vectors are triples of rationals.                *)
(***************************************************************************)
EXTENDS Integers, Sequences, FiniteSets, TLC

(***************************************************************************)
(* Exact rational arithmetic.                                              *)
(***************************************************************************)
Abs(i) == IF i < 0 THEN -i ELSE i

RECURSIVE GCD(_, _)
GCD(a, b) == IF b = 0 THEN a ELSE GCD(b, a % b)

Sign(i) == IF i < 0 THEN -1 ELSE 1

\* the rational n / d (d # 0) in lowest terms with a positive denominator
Rat(n, d) ==
    <<(Sign(d) * n) \div GCD(Abs(n), Abs(d)), (Sign(d) * d) \div GCD(Abs(n), Abs(d))>>

R(i) == <<i, 1>>

RZero == R(0)

\* the result of a division by zero and of every operation on it (inf, nan)
NonFinite == <<0, 0>>

RAdd(a, b) ==
    IF a[2] = 0 \/ b[2] = 0 THEN NonFinite
    ELSE Rat(a[1] * b[2] + b[1] * a[2], a[2] * b[2])

RNeg(a) == IF a[2] = 0 THEN NonFinite ELSE <<-a[1], a[2]>>

RSub(a, b) ==
    IF a[2] = 0 \/ b[2] = 0 THEN NonFinite
    ELSE Rat(a[1] * b[2] - b[1] * a[2], a[2] * b[2])

RMul(a, b) ==
    IF a[2] = 0 \/ b[2] = 0 THEN NonFinite ELSE Rat(a[1] * b[1], a[2] * b[2])

RDiv(a, b) ==
    IF a[2] = 0 \/ b[2] = 0 \/ b[1] = 0 THEN NonFinite ELSE Rat(a[1] * b[2], a[2] * b[1])

RAbs(a) == IF a[2] = 0 THEN NonFinite ELSE <<Abs(a[1]), a[2]>>

\* comparisons with a non-finite operand are false
RLt(a, b) == a[2] # 0 /\ b[2] # 0 /\ a[1] * b[2] < b[1] * a[2]

RLe(a, b) == a[2] # 0 /\ b[2] # 0 /\ a[1] * b[2] <= b[1] * a[2]

RMin(a, b) == IF RLt(b, a) THEN b ELSE a

RMax(a, b) == IF RLt(a, b) THEN b ELSE a

\* the least k in lo..hi with k * k >= n, by bisection
RECURSIVE ISqrtIn(_, _, _)
ISqrtIn(lo, hi, n) ==
    IF lo >= hi THEN lo
    ELSE IF ((lo + hi) \div 2) * ((lo + hi) \div 2) >= n
         THEN ISqrtIn(lo, (lo + hi) \div 2, n)
         ELSE ISqrtIn(((lo + hi) \div 2) + 1, hi, n)

ISqrt(n) == IF n <= 0 THEN 0 ELSE ISqrtIn(0, n, n)

IsSquare(n) == n >= 0 /\ ISqrt(n) * ISqrt(n) = n

\* the rationals whose square root is a rational
HasSqrt(a) == a[2] # 0 /\ IsSquare(a[1]) /\ IsSquare(a[2])

\* ti.sqrt, defined on the rationals that have a rational root
RSqrt(a) ==
    IF a[2] = 0 THEN NonFinite
    ELSE CHOOSE r \in {<<ISqrt(a[1]), ISqrt(a[2])>>} : r[1] * r[1] = a[1] /\ r[2] * r[2] = a[2]

(***************************************************************************)
(* Vectors (vec3f).                                                        *)
(***************************************************************************)
V(x, y, z) == <<R(x), R(y), R(z)>>

ZEROVEC3f == V(0, 0, 0)

VAdd(u, v) == <<RAdd(u[1], v[1]), RAdd(u[2], v[2]), RAdd(u[3], v[3])>>

VNeg(u) == <<RNeg(u[1]), RNeg(u[2]), RNeg(u[3])>>

VSub(u, v) == <<RSub(u[1], v[1]), RSub(u[2], v[2]), RSub(u[3], v[3])>>

VScale(r, u) == <<RMul(r, u[1]), RMul(r, u[2]), RMul(r, u[3])>>

VDivS(u, r) == <<RDiv(u[1], r), RDiv(u[2], r), RDiv(u[3], r)>>

VDot(u, v) == RAdd(RAdd(RMul(u[1], v[1]), RMul(u[2], v[2])), RMul(u[3], v[3]))

VCross(u, v) ==
    << RSub(RMul(u[2], v[3]), RMul(u[3], v[2])),
       RSub(RMul(u[3], v[1]), RMul(u[1], v[3])),
       RSub(RMul(u[1], v[2]), RMul(u[2], v[1])) >>

VNormSq(u) == VDot(u, u)

VHasNorm(u) == HasSqrt(VNormSq(u))

VNorm(u) == RSqrt(VNormSq(u))

\* ti.Vector.normalized(): u / |u|
VNormalized(u) == VDivS(u, VNorm(u))

(***************************************************************************)
(* Helpers of the repository that the contact model calls.                 *)
(***************************************************************************)
\* src.utils.ScalarFunction.EffectiveValue: the harmonic combination
EffectiveValue(a, b) == RDiv(RMul(R(2), RMul(a, b)), RAdd(a, b))

\* src.utils.VectorFunction.Normalize: the unit vector, zero for a zero vector
Normalize(u) == IF VNormSq(u) = RZero THEN ZEROVEC3f ELSE VDivS(u, VNorm(u))

\* ContactModelBase.get_componousID: the composite index of a material pair
get_componousID(max_material_num, materialID1, materialID2) ==
    materialID1 * max_material_num + materialID2

\* particle._update_contact_interaction: add (never overwrite) force and torque
_update_contact_interaction(p, force, torque) ==
    [p EXCEPT !.contact_force = VAdd(@, force), !.contact_torque = VAdd(@, torque)]

\* ContactTable._set_contact: the record of one contact after its evaluation
_set_contact(c, normal_force, tangential_force, tangOverTemp) ==
    [c EXCEPT !.cnforce = normal_force, !.csforce = tangential_force,
              !.oldTangOverlap = tangOverTemp]

\* the coupled/MPM contact table keeps the overlap only
_set_contact_overlap(c, tangOverTemp) == [c EXCEPT !.oldTangOverlap = tangOverTemp]

\* the material point's _update_contact_interaction takes the force only
_update_contact_force(p, force) == [p EXCEPT !.contact_force = VAdd(@, force)]

\* wall.processCircleShape: the (signed) fraction of the contact the primitive
\* covers; it depends on the geometry only and is an input of the model
processCircleShape(w, pos1, distance, overlap) == w.coverage

\* wall._get_velocity
_get_velocity(w) == w.v

(***************************************************************************)
(* LinearSurfaceProperty: the force law.                                   *)
(***************************************************************************)
\* Every value that is used more than once is a parameter of the operator
\* that uses it, so that it is evaluated once; CHOOSE r \in {F(x) : x \in {e}} : TRUE
\* is F(e) with e evaluated first, as a statement of the code evaluates it.

\* the slip branch (Linear.py 226-227): the overlap is recomputed from the
\* clipped force
\* mutant of SlipResult: the overlap of a slipping contact is the clipped
\* force without the division by the tangential stiffness
SlipResultNoStiffness(ks, tangential_force) ==
    [tangential_force |-> tangential_force, tangOverTemp |-> VNeg(tangential_force)]

SlipResult(ks, tangential_force) ==
    [tangential_force |-> tangential_force,
     tangOverTemp |-> VDivS(VNeg(tangential_force), ks)]

\* mutant of CoulombCap: the slip branch leaves the trial force unclipped
CoulombCapNoClip(ks, fric, trial_ft, tang_damping_force, tangOverTemp) ==
    IF RLt(fric, VNorm(trial_ft))
    THEN [tangential_force |-> trial_ft, tangOverTemp |-> tangOverTemp]
    ELSE [tangential_force |-> VAdd(trial_ft, tang_damping_force),
          tangOverTemp |-> tangOverTemp]

\* mutant of CoulombCap: the slip branch clips the force and keeps the elastic
\* overlap instead of recomputing it from the clipped force
CoulombCapKeepOverlap(ks, fric, trial_ft, tang_damping_force, tangOverTemp) ==
    IF RLt(fric, VNorm(trial_ft))
    THEN [tangential_force |-> VScale(fric, VNormalized(trial_ft)),
          tangOverTemp |-> tangOverTemp]
    ELSE [tangential_force |-> VAdd(trial_ft, tang_damping_force),
          tangOverTemp |-> tangOverTemp]

\* mutant of CoulombCap: the slip branch is entered when the trial force
\* reaches the limit, a zero trial force at a zero limit included
CoulombCapSlipAtLimit(ks, fric, trial_ft, tang_damping_force, tangOverTemp) ==
    IF RLe(fric, VNorm(trial_ft))
    THEN SlipResult(ks, VScale(fric, VNormalized(trial_ft)))
    ELSE [tangential_force |-> VAdd(trial_ft, tang_damping_force),
          tangOverTemp |-> tangOverTemp]

\* the Coulomb cap (Linear.py 223-229, and again 263-269, 307-313, 346-352):
\* slip clips the trial force to fric along its direction, stick keeps the
\* trial force plus damping and the elastic overlap
CoulombCap(ks, fric, trial_ft, tang_damping_force, tangOverTemp) ==
    IF RLt(fric, VNorm(trial_ft))
    THEN CHOOSE slip \in
            { SlipResult(ks, tangential_force) :
                tangential_force \in {VScale(fric, VNormalized(trial_ft))} } : TRUE
    ELSE [tangential_force |-> VAdd(trial_ft, tang_damping_force),
          tangOverTemp |-> tangOverTemp]

\* vs = v_rel - v_rel.dot(norm) * norm (Linear.py 211, 218)
TangentialPart(v_rel, norm) == VSub(v_rel, VScale(VDot(v_rel, norm), norm))

\* mutant of NormalForceScalar: the spring term with the sign of the gap
NormalForceScalarAttractive(self, m_eff, gapn, vn) ==
    RAdd(RMul(self.kn, gapn),
         RMul(RMul(RMul(R(-2), self.ndratio), RSqrt(RMul(m_eff, self.kn))), vn))

\* normal_contact_force + normal_damping_force (Linear.py 213-214)
NormalForceScalar(self, m_eff, gapn, vn) ==
    RAdd(RNeg(RMul(self.kn, gapn)),
         RMul(RMul(RMul(R(-2), self.ndratio), RSqrt(RMul(m_eff, self.kn))), vn))

\* tangOverTemp = vs * dt + |old| * Normalize(tangOverlapRot) (Linear.py 219)
ElasticOverlap(vs, dt, oldNorm, rotDir) == VAdd(VScale(dt, vs), VScale(oldNorm, rotDir))

\* tang_damping_force (Linear.py 221)
TangentialDamping(self, m_eff, vs) ==
    VScale(RMul(RMul(R(-2), self.sdratio), RSqrt(RMul(m_eff, self.ks))), vs)

LawResult(normal_force, cap) ==
    [normal_force |-> normal_force, tangential_force |-> cap.tangential_force,
     tangOverTemp |-> cap.tangOverTemp]

\* trial force and cap (Linear.py 220, 223-229)
TangentialLaw(self, normal_force, fric, tang_damping_force, tangOverTemp) ==
    CHOOSE law \in
        { LawResult(normal_force,
                    CoulombCap(self.ks, fric, trial_ft, tang_damping_force, tangOverTemp)) :
            trial_ft \in {VScale(RNeg(self.ks), tangOverTemp)} } : TRUE

\* normal force, elastic overlap, damping and friction limit (Linear.py 213-223)
LawOf(self, m_eff, norm, fn, vs, dt, oldNorm, rotDir) ==
    CHOOSE law \in
        { TangentialLaw(self, normal_force, fric, tang_damping_force, tangOverTemp) :
            normal_force \in {VScale(fn, norm)},
            fric \in {RMul(self.mu, RAbs(fn))},
            tang_damping_force \in {TangentialDamping(self, m_eff, vs)},
            tangOverTemp \in {ElasticOverlap(vs, dt, oldNorm, rotDir)} } : TRUE

\* Linear.py 213-214, 219
LawOfKinematics(self, m_eff, gapn, norm, vn, vs, dt, oldNorm, tangOverlapRot) ==
    CHOOSE law \in
        { LawOf(self, m_eff, norm, fn, vs, dt, oldNorm, rotDir) :
            fn \in {NormalForceScalar(self, m_eff, gapn, vn)},
            rotDir \in {Normalize(tangOverlapRot)} } : TRUE

\* normal force, trial force and Coulomb cap shared by the four assemblers
\* (Linear.py 210-229, and again 250-269, 294-313, 333-352)
LinearForceLaw(self, m_eff, gapn, norm, v_rel, dt, tangOverlapOld) ==
    CHOOSE law \in
        { LawOfKinematics(self, m_eff, gapn, norm, vn, vs, dt, oldNorm, tangOverlapRot) :
            vn \in {VDot(v_rel, norm)},
            vs \in {TangentialPart(v_rel, norm)},
            oldNorm \in {VNorm(tangOverlapOld)},
            tangOverlapRot \in {TangentialPart(tangOverlapOld, norm)} } : TRUE

\* mutant of Reaction: the second endpoint receives the force with the same sign
ReactionSameSign(Ftotal) == Ftotal

\* the force put on the second endpoint of a contact (Linear.py 236, 276)
Reaction(Ftotal) == VNeg(Ftotal)

\* velocity of a particle's material at the contact point: v + w x (cpos - x)
PointVelocity(p, cpos) == VAdd(p.v, VCross(p.w, VSub(cpos, p.x)))

\* Linear.py 231-236
PPAccumulate(nc, end1, end2, arm1, arm2, particle, cplist, law, Ftotal, moment) ==
    [cplist |-> [cplist EXCEPT ![nc] =
                    _set_contact(@, law.normal_force, law.tangential_force, law.tangOverTemp)],
     particle |-> [[particle EXCEPT ![end1] =
                        _update_contact_interaction(@, Ftotal, VScale(arm1, moment))]
                      EXCEPT ![end2] =
                        _update_contact_interaction(@, Reaction(Ftotal), VScale(arm2, moment))]]

PPResult(nc, end1, end2, gapn, norm, particle, cplist, law) ==
    CHOOSE r \in
        { PPAccumulate(nc, end1, end2,
                       RAdd(particle[end1].rad, RMul(<<1, 2>>, gapn)),
                       RAdd(particle[end2].rad, RMul(<<1, 2>>, gapn)),
                       particle, cplist, l, Ftotal, moment) :
            l \in {law},
            Ftotal \in {VAdd(law.normal_force, law.tangential_force)},
            moment \in {VCross(law.tangential_force, norm)} } : TRUE

\* Linear.py 196-236
_particle_particle_force_assemble(self, nc, end1, end2, gapn, norm, cpos, dt, particle, cplist) ==
    CHOOSE r \in
        { PPResult(nc, end1, end2, gapn, norm, particle, cplist,
                   LinearForceLaw(self, m_eff, gapn, norm, v_rel, dt, cplist[nc].oldTangOverlap)) :
            m_eff \in {EffectiveValue(particle[end1].m, particle[end2].m)},
            v_rel \in {VSub(PointVelocity(particle[end1], cpos),
                            PointVelocity(particle[end2], cpos))} } : TRUE

\* Linear.py 271-276
CoupledAccumulate(nc, end1, end2, cpos, particle1, particle2, cplist, law, Ftotal) ==
    [cplist |-> [cplist EXCEPT ![nc] = _set_contact_overlap(@, law.tangOverTemp)],
     particle1 |-> [particle1 EXCEPT ![end1] = _update_contact_force(@, Ftotal)],
     particle2 |-> [particle2 EXCEPT ![end2] =
                      _update_contact_interaction(@, Reaction(Ftotal),
                          VCross(Ftotal, VSub(cpos, particle2[end2].x)))]]

CoupledResult(nc, end1, end2, cpos, particle1, particle2, cplist, law) ==
    CoupledAccumulate(nc, end1, end2, cpos, particle1, particle2, cplist, law,
                      VAdd(law.normal_force, law.tangential_force))

\* Linear.py 238-276: particle1 holds material points, particle2 DEM particles
_coupled_particle_force_assemble(self, nc, end1, end2, gapn, norm, cpos, dt, particle1, particle2, cplist) ==
    CHOOSE r \in
        { CoupledResult(nc, end1, end2, cpos, particle1, particle2, cplist,
              LinearForceLaw(self, m_eff, gapn, norm, v_rel, dt, cplist[nc].oldTangOverlap)) :
            m_eff \in {EffectiveValue(particle1[end1].m, particle2[end2].m)},
            v_rel \in {VSub(particle1[end1].v, PointVelocity(particle2[end2], cpos))} } : TRUE

\* Linear.py 316-320
PWAccumulate(nc, end1, cpos, particle, wall, cplist, law, fraction, Ftotal) ==
    [cplist |-> [cplist EXCEPT ![nc] =
                    _set_contact(@, VScale(fraction, law.normal_force),
                                 VScale(fraction, law.tangential_force), law.tangOverTemp)],
     particle |-> [particle EXCEPT ![end1] =
                    _update_contact_interaction(@, Ftotal,
                        VScale(fraction, VCross(Ftotal, VSub(particle[end1].x, cpos))))],
     wall |-> wall]

\* Linear.py 315-316
PWResult(nc, end1, cpos, particle, wall, cplist, law, fraction) ==
    PWAccumulate(nc, end1, cpos, particle, wall, cplist, law, fraction,
                 VScale(fraction, VAdd(law.normal_force, law.tangential_force)))

\* Linear.py 282-320
_particle_wall_force_assemble(self, nc, end1, end2, distance, gapn, norm, cpos, dt, particle, wall, cplist) ==
    CHOOSE r \in
        { PWResult(nc, end1, cpos, particle, wall, cplist,
              LinearForceLaw(self, particle[end1].m, gapn, norm, v_rel, dt,
                             cplist[nc].oldTangOverlap),
              RAbs(processCircleShape(wall[end2], particle[end1].x, distance, RNeg(gapn)))) :
            v_rel \in {VSub(PointVelocity(particle[end1], cpos), _get_velocity(wall[end2]))} } :
        TRUE

\* Linear.py 354-358
MPMWResult(nc, end1, particle, wall, cplist, law, fraction) ==
    [cplist |-> [cplist EXCEPT ![nc] = _set_contact_overlap(@, law.tangOverTemp)],
     particle |-> [particle EXCEPT ![end1] =
                    _update_contact_force(@,
                        VScale(fraction, VAdd(law.normal_force, law.tangential_force)))],
     wall |-> wall]

\* Linear.py 322-358
_mpm_wall_force_assemble(self, nc, end1, end2, distance, gapn, norm, dt, particle, wall, cplist) ==
    CHOOSE r \in
        { MPMWResult(nc, end1, particle, wall, cplist,
              LinearForceLaw(self, particle[end1].m, gapn, norm, v_rel, dt,
                             cplist[nc].oldTangOverlap),
              processCircleShape(wall[end2], particle[end1].x, distance, RNeg(gapn))) :
            v_rel \in {VSub(particle[end1].v, _get_velocity(wall[end2]))} } : TRUE

(***************************************************************************)
(* The ContactRecord and HistoryRecord stores and the Identity Resolver.   *)
(* A store is a function from its slots 0 .. size-1 to records; a count    *)
(* array (pcontact.particle_particle, ...) holds the cumulative contact    *)
(* counts, so owner i has the slots object_object[i] .. object_object[i+1] *)
(* - 1; a potential list gives, per owner, the partner ids of its          *)
(* candidates.                                                             *)
(***************************************************************************)
particleNum == 4

potential_particle_num == 2

wall_coordination_number == 2

Owners(num) == 0 .. num - 1

Range(list) == { list[n] : n \in 1 .. Len(list) }

Region(object_object, i) == object_object[i] .. object_object[i + 1] - 1

ActiveSlots(object_object, num) == 0 .. object_object[num] - 1

OwnerOfSlot(object_object, num, k) ==
    CHOOSE i \in Owners(num) : k \in Region(object_object, i)

ZeroContact ==
    [endID1 |-> 0, endID2 |-> 0, cnforce |-> ZEROVEC3f, csforce |-> ZEROVEC3f,
     oldTangOverlap |-> ZEROVEC3f]

ZeroHistory == [DstID |-> 0, oldTangOverlap |-> ZEROVEC3f]

FreshContact(end1, end2) == [ZeroContact EXCEPT !.endID1 = end1, !.endID2 = end2]

PairOf(record) == <<record.endID1, record.endID2>>

\* the snapshot: every slot of the ContactRecord store into the HistoryRecord store
copy_contact_table(object_object, num, cplist, hist_cplist) ==
    [k \in DOMAIN hist_cplist |->
        [DstID |-> cplist[k].endID2, oldTangOverlap |-> cplist[k].oldTangOverlap]]

HistorySlots(hist_cplist, hist_object_object, i, partner) ==
    { h \in Region(hist_object_object, i) : hist_cplist[h].DstID = partner }

\* the overlap of partner among the history of owner i, zero when it has none
find_history(hist_cplist, hist_object_object, i, partner) ==
    IF HistorySlots(hist_cplist, hist_object_object, i, partner) = {} THEN ZEROVEC3f
    ELSE hist_cplist[CHOOSE h \in HistorySlots(hist_cplist, hist_object_object, i, partner) :
                        TRUE].oldTangOverlap

ExceedsCapacity(capacity, num, potential_list) ==
    \E i \in Owners(num) : Len(potential_list[i]) > capacity

CandidateAt(object_object, potential_list, k, i) ==
    FreshContact(i, potential_list[i][k - object_object[i] + 1])

\* regenerate the store from the candidate table, or the capacity error
RegeneratedTable(capacity, num, object_object, potential_list, cplist) ==
    IF ExceedsCapacity(capacity, num, potential_list)
    THEN [err |-> "capacity", cplist |-> cplist]
    ELSE [err |-> "none",
          cplist |-> [k \in DOMAIN cplist |->
                        IF k \in ActiveSlots(object_object, num)
                        THEN CandidateAt(object_object, potential_list, k,
                                         OwnerOfSlot(object_object, num, k))
                        ELSE cplist[k]]]

update_contact_table_(capacity, num, object_object, potential_list, cplist) ==
    RegeneratedTable(capacity, num, object_object, potential_list, cplist)

update_wall_contact_table_(capacity, num, object_object, potential_list, cplist) ==
    RegeneratedTable(capacity, num, object_object, potential_list, cplist)

kernel_inherit_contact_history(num, cplist, hist_cplist, object_object, hist_object_object) ==
    [k \in DOMAIN cplist |->
        IF k \in ActiveSlots(object_object, num)
        THEN [cplist[k] EXCEPT !.oldTangOverlap =
                 find_history(hist_cplist, hist_object_object,
                              cplist[k].endID1, cplist[k].endID2)]
        ELSE cplist[k]]

\* the records of owner i before the update, in slot order
RecordsBefore(cplist, active_contactNum, i) ==
    [n \in 1 .. (active_contactNum[i + 1] - active_contactNum[i]) |->
        cplist[active_contactNum[i] + n - 1]]

NewPartners(before, list) ==
    SelectSeq(list, LAMBDA p : \A n \in 1 .. Len(before) : before[n].endID2 # p)

\* compact the records of one owner: a record whose partner is still a
\* candidate stays, a stale one is overwritten by the next new pair or dropped
RECURSIVE Compacted(_, _, _, _)
Compacted(before, new, candidates, i) ==
    IF before = <<>> THEN [n \in 1 .. Len(new) |-> FreshContact(i, new[n])]
    ELSE IF Head(before).endID2 \in candidates
    THEN <<Head(before)>> \o Compacted(Tail(before), new, candidates, i)
    ELSE IF new # <<>>
    THEN <<FreshContact(i, Head(new))>> \o Compacted(Tail(before), Tail(new), candidates, i)
    ELSE Compacted(Tail(before), new, candidates, i)

CompactedOwner(before, list, i) ==
    Compacted(before, NewPartners(before, list), Range(list), i)

BitTableUpdated(object_object, num, potential_list, cplist, active_contactNum) ==
    [k \in DOMAIN cplist |->
        IF k \in ActiveSlots(object_object, num)
        THEN CHOOSE record \in
                { CompactedOwner(RecordsBefore(cplist, active_contactNum, i),
                                 potential_list[i], i)[k - object_object[i] + 1] :
                    i \in {OwnerOfSlot(object_object, num, k)} } : TRUE
        ELSE cplist[k]]

update_contact_bit_table_(object_object, num, potential_list, cplist, active_contactNum) ==
    BitTableUpdated(object_object, num, potential_list, cplist, active_contactNum)

update_contact_wall_bit_table_(object_object, num, potential_list, cplist, active_contactNum) ==
    BitTableUpdated(object_object, num, potential_list, cplist, active_contactNum)

\* the overlap a force evaluation stores for a pair whose old overlap is old:
\* it names the pair and differs from the old one
StepOf(old) == IF old[1][1] = 1 THEN 2 ELSE 1

StoredOverlap(pair, old) == V(StepOf(old), pair[1] + 1, pair[2] + 1)

\* one Force Assembler pass over the active records; olds[k] is the old
\* overlap it reads for slot k
AssembledStore(num, cplist, object_object, olds) ==
    [cplist |-> [k \in DOMAIN cplist |->
                    IF k \in ActiveSlots(object_object, num)
                    THEN [cplist[k] EXCEPT !.oldTangOverlap =
                             StoredOverlap(PairOf(cplist[k]), olds[k])]
                    ELSE cplist[k]],
     tangOverlapOld |-> [pair \in { PairOf(cplist[k]) : k \in ActiveSlots(object_object, num) } |->
                           olds[CHOOSE k \in ActiveSlots(object_object, num) :
                                   PairOf(cplist[k]) = pair]]]

kernel_force_assemble_(num, cplist, object_object) ==
    AssembledStore(num, cplist, object_object,
                   [k \in ActiveSlots(object_object, num) |-> cplist[k].oldTangOverlap])

kernel_force_assemble_history_(num, cplist, hist_cplist, object_object, hist_object_object) ==
    AssembledStore(num, cplist, object_object,
                   [k \in ActiveSlots(object_object, num) |->
                       find_history(hist_cplist, hist_object_object,
                                    cplist[k].endID1, cplist[k].endID2)])

BitTableResult(object_object, num, hist_cplist, pass) ==
    [cplist |-> pass.cplist,
     hist_cplist |-> copy_contact_table(object_object, num, pass.cplist, hist_cplist),
     tangOverlapOld |-> pass.tangOverlapOld]

\* the snapshot taken before the force assembly instead of after it
tackle_particle_particle_contact_bit_table_early_copy(self, sims, scene, pcontact) ==
    CHOOSE r \in
        { [cplist |-> pass.cplist,
           hist_cplist |-> copy_contact_table(pcontact.particle_particle, scene.particleNum,
                                              updated, self.hist_cplist),
           tangOverlapOld |-> pass.tangOverlapOld] :
            pass \in { kernel_force_assemble_history_(scene.particleNum, updated, self.hist_cplist,
                          pcontact.particle_particle, pcontact.hist_particle_particle) :
                       updated \in {update_contact_bit_table_(pcontact.particle_particle,
                          scene.particleNum, pcontact.potential_list_particle_particle,
                          self.cplist, self.active_contactNum)} },
            updated \in {update_contact_bit_table_(pcontact.particle_particle,
                          scene.particleNum, pcontact.potential_list_particle_particle,
                          self.cplist, self.active_contactNum)} } : TRUE

tackle_particle_particle_contact_bit_table(self, sims, scene, pcontact) ==
    CHOOSE r \in
        { BitTableResult(pcontact.particle_particle, scene.particleNum, self.hist_cplist,
              kernel_force_assemble_history_(scene.particleNum, updated, self.hist_cplist,
                  pcontact.particle_particle, pcontact.hist_particle_particle)) :
            updated \in {update_contact_bit_table_(pcontact.particle_particle,
                            scene.particleNum, pcontact.potential_list_particle_particle,
                            self.cplist, self.active_contactNum)} } : TRUE

\* mutant of tackle_particle_wall_contact_bit_table: no snapshot after the
\* force assembly
tackle_particle_wall_contact_bit_table_no_copy(self, sims, scene, pcontact) ==
    CHOOSE r \in
        { [cplist |-> pass.cplist, hist_cplist |-> self.hist_cplist,
           tangOverlapOld |-> pass.tangOverlapOld] :
            pass \in { kernel_force_assemble_history_(scene.particleNum, updated,
                          self.hist_cplist, pcontact.particle_wall,
                          pcontact.hist_particle_wall) :
                       updated \in {update_contact_wall_bit_table_(pcontact.particle_wall,
                          scene.particleNum, pcontact.potential_list_particle_wall,
                          self.cplist, self.active_contactNum)} } } : TRUE

tackle_particle_wall_contact_bit_table(self, sims, scene, pcontact) ==
    CHOOSE r \in
        { BitTableResult(pcontact.particle_wall, scene.particleNum, self.hist_cplist,
              kernel_force_assemble_history_(scene.particleNum, updated, self.hist_cplist,
                  pcontact.particle_wall, pcontact.hist_particle_wall)) :
            updated \in {update_contact_wall_bit_table_(pcontact.particle_wall,
                            scene.particleNum, pcontact.potential_list_particle_wall,
                            self.cplist, self.active_contactNum)} } : TRUE

\* the outcome of a full rebuild: the capacity error, or the regenerated
\* store with the history of the snapshot inherited
ResolvedTable(num, object_object, hist_object_object, history, regenerated) ==
    IF regenerated.err # "none"
    THEN [cplist |-> regenerated.cplist, hist_cplist |-> history, err |-> regenerated.err]
    ELSE [cplist |-> kernel_inherit_contact_history(num, regenerated.cplist, history,
                                                    object_object, hist_object_object),
          hist_cplist |-> history, err |-> "none"]

\* the regenerated store left without the inherited history
update_particle_particle_contact_table_no_inherit(self, sims, scene, pcontact) ==
    CHOOSE r \in
        { [cplist |-> regenerated.cplist, hist_cplist |-> history, err |-> regenerated.err] :
            history \in {copy_contact_table(pcontact.particle_particle, scene.particleNum,
                                            self.cplist, self.hist_cplist)},
            regenerated \in {update_contact_table_(sims.potential_particle_num,
                                scene.particleNum, pcontact.particle_particle,
                                pcontact.potential_list_particle_particle, self.cplist)} } : TRUE

\* the capacity handed to the kernel one too large
update_particle_particle_contact_table_off_by_one(self, sims, scene, pcontact) ==
    CHOOSE r \in
        { ResolvedTable(scene.particleNum, pcontact.particle_particle,
                        pcontact.hist_particle_particle, history,
                        update_contact_table_(sims.potential_particle_num + 1,
                            scene.particleNum, pcontact.particle_particle,
                            pcontact.potential_list_particle_particle, self.cplist)) :
            history \in {copy_contact_table(pcontact.particle_particle, scene.particleNum,
                                            self.cplist, self.hist_cplist)} } : TRUE

update_particle_particle_contact_table(self, sims, scene, pcontact) ==
    CHOOSE r \in
        { ResolvedTable(scene.particleNum, pcontact.particle_particle,
                        pcontact.hist_particle_particle, history,
                        update_contact_table_(sims.potential_particle_num,
                            scene.particleNum, pcontact.particle_particle,
                            pcontact.potential_list_particle_particle, self.cplist)) :
            history \in {copy_contact_table(pcontact.particle_particle, scene.particleNum,
                                            self.cplist, self.hist_cplist)} } : TRUE

\* the history searched under the counts of this step instead of the last
update_particle_wall_contact_table_new_counts(self, sims, scene, pcontact) ==
    CHOOSE r \in
        { ResolvedTable(scene.particleNum, pcontact.particle_wall,
                        pcontact.particle_wall, history,
                        update_wall_contact_table_(sims.wall_coordination_number,
                            scene.particleNum, pcontact.particle_wall,
                            pcontact.potential_list_particle_wall, self.cplist)) :
            history \in {copy_contact_table(pcontact.particle_wall, scene.particleNum,
                                            self.cplist, self.hist_cplist)} } : TRUE

update_particle_wall_contact_table(self, sims, scene, pcontact) ==
    CHOOSE r \in
        { ResolvedTable(scene.particleNum, pcontact.particle_wall,
                        pcontact.hist_particle_wall, history,
                        update_wall_contact_table_(sims.wall_coordination_number,
                            scene.particleNum, pcontact.particle_wall,
                            pcontact.potential_list_particle_wall, self.cplist)) :
            history \in {copy_contact_table(pcontact.particle_wall, scene.particleNum,
                                            self.cplist, self.hist_cplist)} } : TRUE

\* mutant of tackle_particle_particle_contact_cplist: the pass runs over the
\* contact indices of the last step
tackle_particle_particle_contact_cplist_hist_counts(self, sims, scene, pcontact) ==
    kernel_force_assemble_(scene.particleNum, self.cplist, pcontact.hist_particle_particle)

tackle_particle_particle_contact_cplist(self, sims, scene, pcontact) ==
    kernel_force_assemble_(scene.particleNum, self.cplist, pcontact.particle_particle)

tackle_particle_wall_contact_cplist(self, sims, scene, pcontact) ==
    kernel_force_assemble_(scene.particleNum, self.cplist, pcontact.particle_wall)

(***************************************************************************)
(* The rebuild of the history from an export.  An array is a function from *)
(* 0 .. shape-1; an index past its end is undefined: such a read returns   *)
(* any value (garbage), such a write leaves the store as it is, and either *)
(* is recorded in outOfBounds.                                             *)
(***************************************************************************)
Shape(array) == Cardinality(DOMAIN array)

\* the arrays of the export, as the rebuild sees them
rebuild_contact_list(contact_info) ==
    [object_object |-> contact_info.contact_num,
     particle_number |-> Shape(contact_info.contact_num) - 1,
     DstID |-> contact_info.end2,
     oldTangOverlap |-> contact_info.oldTangentialOverlap]

ReadAt(array, cp, garbage) == IF cp \in DOMAIN array THEN array[cp] ELSE garbage

kernel_rebulid_history_contact_list(hist_cplist, hist_object_object, object_object, dst, oldTangOverlap, garbage) ==
    [hist_object_object |->
        [i \in DOMAIN hist_object_object |->
            IF i \in DOMAIN object_object THEN object_object[i] ELSE hist_object_object[i]],
     hist_cplist |->
        [cp \in DOMAIN hist_cplist |->
            IF cp < object_object[Shape(object_object) - 1]
            THEN [DstID |-> ReadAt(dst, cp, garbage.DstID),
                  oldTangOverlap |-> ReadAt(oldTangOverlap, cp, garbage.oldTangOverlap)]
            ELSE hist_cplist[cp]],
     outOfBounds |->
        \E cp \in 0 .. object_object[Shape(object_object) - 1] - 1 :
            cp \notin DOMAIN hist_cplist \/ cp \notin DOMAIN dst
                \/ cp \notin DOMAIN oldTangOverlap]

Rebuilt(self, hist_object_object, export, garbage) ==
    IF Shape(export.DstID) > Shape(self.cplist)
    THEN [err |-> "capacity", hist_cplist |-> self.hist_cplist,
          hist_object_object |-> hist_object_object, outOfBounds |-> FALSE]
    ELSE [err |-> "none"] @@
         kernel_rebulid_history_contact_list(self.hist_cplist, hist_object_object,
             export.object_object, export.DstID, export.oldTangOverlap, garbage)

rebuild_ppcontact_list(self, pcontact, contact_info, garbage) ==
    Rebuilt(self, pcontact.hist_particle_particle, rebuild_contact_list(contact_info), garbage)

rebuild_pwcontact_list(self, pcontact, contact_info, garbage) ==
    Rebuilt(self, pcontact.hist_particle_wall, rebuild_contact_list(contact_info), garbage)

\* ContactModelBase.get_contact_output: the records of the active contact
\* indices 0 .. object_object[particleNum] - 1, field by field
get_contact_output(self, scene, object_object) ==
    [end1 |-> [cp \in ActiveSlots(object_object, scene.particleNum) |-> self.cplist[cp].endID1],
     end2 |-> [cp \in ActiveSlots(object_object, scene.particleNum) |-> self.cplist[cp].endID2],
     normal_force |->
        [cp \in ActiveSlots(object_object, scene.particleNum) |-> self.cplist[cp].cnforce],
     tangential_force |->
        [cp \in ActiveSlots(object_object, scene.particleNum) |-> self.cplist[cp].csforce],
     oldTangentialOverlap |->
        [cp \in ActiveSlots(object_object, scene.particleNum) |->
            self.cplist[cp].oldTangOverlap]]

\* Linear.py 100-104: the arrays np.savez writes
get_ppcontact_output(self, scene, pcontact) ==
    [contact_num |-> [i \in 0 .. scene.particleNum |-> pcontact.particle_particle[i]]]
        @@ get_contact_output(self, scene, pcontact.particle_particle)

\* Linear.py 106-110
get_pwcontact_output(self, scene, pcontact) ==
    [contact_num |-> [i \in 0 .. scene.particleNum |-> pcontact.particle_wall[i]]]
        @@ get_contact_output(self, scene, pcontact.particle_wall)

(***************************************************************************)
(* The state variables of the constitutive models (DruckerPrager.py and    *)
(* ElasticPerfectlyPlastic.py carry the same three definitions).  The      *)
(* field self.stateVars holds one record per material point, 0 ..          *)
(* max_particle_num-1.                                                     *)
(***************************************************************************)
max_particle_num == 3

\* lines 25-28.  numpy's a[start_particle:end_particle] holds the entries of
\* the range that the array has, indexed again from 0
get_state_vars_dict(self, start_particle, end_particle) ==
    [epstrain |->
        [np \in 0 .. Cardinality({i \in DOMAIN self.stateVars :
                                    start_particle <= i /\ i < end_particle}) - 1
            |-> self.stateVars[start_particle + np].epstrain],
     estress |->
        [np \in 0 .. Cardinality({i \in DOMAIN self.stateVars :
                                    start_particle <= i /\ i < end_particle}) - 1
            |-> self.stateVars[start_particle + np].estress]]

\* for np in range(estress.shape[0]): the kernel writes the entries 0 ..
\* estress.shape[0]-1 of the field
kernel_reload_state_variables(estress, epstrain, state_vars) ==
    [np \in DOMAIN state_vars |->
        IF np < Shape(estress)
        THEN [state_vars[np] EXCEPT !.estress = estress[np], !.epstrain = epstrain[np]]
        ELSE state_vars[np]]

\* lines 30-33: state_vars is the 0-d object array np.load returns for the
\* saved dictionary; item() is the dictionary
reload_state_variables(self, state_vars) ==
    kernel_reload_state_variables(state_vars.item.estress, state_vars.item.epstrain,
                                  self.stateVars)

(***************************************************************************)
(* State.                                                                  *)
(***************************************************************************)
VARIABLES
    surfaceProps,   \* LinearModel.surfaceProps: componousID -> LinearSurfaceProperty
    particle,       \* scene.particle: DEM particles with their accumulators
    mpm,            \* the material points of a coupled contact
    wall,           \* scene.wall
    cplist,         \* self.cplist: the ContactRecord store
    contact,        \* the geometry the kernel hands to an assembler
    assembled,      \* which assembler has evaluated the contact
    populated,      \* the material pairs given to add/inherit_surface_property
    lastCall,       \* the latest call on the property table and its arguments
    calls,          \* the number of calls on the property table
    accumulate,     \* the tasks of one Force Assembler pass and their progress
    hist_cplist,    \* self.hist_cplist: the HistoryRecord store
    pcontact,       \* the NeighborBase: candidate lists and cumulative counts
    mode,           \* the contact class and the resolution strategy of the model
    phase,          \* what the time step waits for
    err,            \* the error that ended the step
    overlaps,       \* per pair: the overlap the last force evaluation read, the
                    \* one it stored and the one stored before it
    contact_info,   \* the export handed to rebuild_*contact_list
    outOfBounds,    \* the rebuild has indexed past the end of an array
    material,       \* the constitutive model class that owns the state variables
    stateVars,      \* self.stateVars: the state variable field of the material points
    state_vars,     \* the saved result of get_state_vars_dict, as np.load returns it
    roundTrip       \* the range of the export and the field the reload was given

vars == <<surfaceProps, particle, mpm, wall, cplist, contact, assembled,
          populated, lastCall, calls, accumulate,
          hist_cplist, pcontact, mode, phase, err, overlaps, contact_info, outOfBounds,
          material, stateVars, state_vars, roundTrip>>

\* the variables of the property table, of one pass, of one contact, of the
\* stores, of the rebuild, of the material state
tableVars == <<populated, lastCall, calls>>

passVars == <<accumulate>>

contactVars == <<mpm, wall, cplist, contact, assembled>>

storeVars == <<hist_cplist, pcontact, mode, phase, err, overlaps>>

rebuildVars == <<contact_info, outOfBounds>>

materialVars == <<material, stateVars, state_vars, roundTrip>>

NoTable == populated = {} /\ lastCall = [op |-> "none"] /\ calls = 0

NoPass == accumulate = <<>>

NoContactState ==
    mpm = <<>> /\ wall = <<>> /\ cplist = <<>> /\ contact = <<>> /\ assembled = "none"

NoStores ==
    /\ hist_cplist = <<>> /\ pcontact = <<>> /\ mode = <<>> /\ phase = "none"
    /\ err = "none" /\ overlaps = <<>>

NoRebuild == contact_info = <<>> /\ outOfBounds = FALSE

NoMaterial ==
    material = "none" /\ stateVars = <<>> /\ state_vars = <<>> /\ roundTrip = <<>>

(***************************************************************************)
(* One contact through each of the four assemblers.                        *)
(***************************************************************************)
Half == <<1, 2>>

ForceSurfaces ==
    { [kn |-> R(2), ks |-> ks, mu |-> mu, ndratio |-> d, sdratio |-> d] :
        ks \in {R(0), R(2), R(8)}, mu \in {R(0), Half, R(1)}, d \in {R(0), Half} }

\* velocity and angular velocity of the first endpoint
ForceMotions ==
    { <<V(0, 0, 0), V(0, 0, 0)>>, <<V(-4, 0, 0), V(0, 0, 0)>>,
      <<V(0, 0, -1), V(0, 1, 0)>>, <<V(0, 4, 1), V(0, 0, 0)>>,
      <<V(0, 0, 3), V(0, 0, 0)>> }

ForceOverlaps == {V(0, 0, 0), V(1, 0, 0), V(3, 0, 4), V(0, 0, 2)}

ForceGaps == {R(-1), R(-2)}

ForceCoverages == {R(0), Half, R(1), RNeg(Half)}

ForceRadius == R(2)

ForceMass == R(2)

ForceNormal == V(0, 0, 1)

NoContact == [endID1 |-> 0, endID2 |-> 1, cnforce |-> ZEROVEC3f, csforce |-> ZEROVEC3f,
              oldTangOverlap |-> ZEROVEC3f]

Body(x, v, w) == [x |-> x, v |-> v, w |-> w, m |-> ForceMass, rad |-> ForceRadius,
                  contact_force |-> ZEROVEC3f, contact_torque |-> ZEROVEC3f]

\* the geometry of two spheres (or a sphere and a plane through the origin)
\* along ForceNormal with gap gapn: the first centre and the contact point
ForcePos1(gapn) == VScale(RAdd(RAdd(ForceRadius, ForceRadius), gapn), ForceNormal)

ForceCpos(gapn) == VScale(RAdd(ForceRadius, RMul(Half, gapn)), ForceNormal)

\* the law takes roots of m_eff * k and norms of the overlaps: the model
\* evaluates the contacts for which these are rational
LawEvaluable(self, m_eff, norm, v_rel, dt, tangOverlapOld) ==
    /\ HasSqrt(RMul(m_eff, self.kn))
    /\ HasSqrt(RMul(m_eff, self.ks))
    /\ VHasNorm(tangOverlapOld)
    /\ \A vs \in {TangentialPart(v_rel, norm)},
          oldNorm \in {VNorm(tangOverlapOld)},
          tangOverlapRot \in {TangentialPart(tangOverlapOld, norm)} :
          /\ VHasNorm(tangOverlapRot)
          /\ \A rotDir \in {Normalize(tangOverlapRot)} :
                \A tangOverTemp \in {ElasticOverlap(vs, dt, oldNorm, rotDir)} :
                    VHasNorm(tangOverTemp)

InitForce ==
    /\ surfaceProps \in [{0} -> ForceSurfaces]
    /\ \E gapn \in ForceGaps, mo \in ForceMotions,
          old \in ForceOverlaps, cov \in ForceCoverages :
          /\ contact = [nc |-> 0, end1 |-> 0, end2 |-> 1, gapn |-> gapn,
                        distance |-> RAdd(ForceRadius, gapn), norm |-> ForceNormal,
                        cpos |-> ForceCpos(gapn), dt |-> R(1), old |-> old]
          /\ particle = [i \in {0, 1} |->
                            IF i = 0 THEN Body(ForcePos1(gapn), mo[1], mo[2])
                                     ELSE Body(ZEROVEC3f, ZEROVEC3f, ZEROVEC3f)]
          /\ mpm = [i \in {0} |-> Body(ForcePos1(gapn), mo[1], ZEROVEC3f)]
          /\ wall = [i \in {1} |-> [v |-> ZEROVEC3f, coverage |-> cov]]
          /\ cplist = [i \in {0} |-> [NoContact EXCEPT !.oldTangOverlap = old]]
    /\ assembled = "none"
    /\ NoTable
    /\ NoMaterial
    /\ NoPass
    /\ NoStores
    /\ NoRebuild

\* v_rel as each assembler computes it (Linear.py 209, 249, 293, 332)
VRelPP(c) == VSub(PointVelocity(particle[c.end1], c.cpos), PointVelocity(particle[c.end2], c.cpos))

VRelCoupled(c) == VSub(mpm[c.end1].v, PointVelocity(particle[c.end2], c.cpos))

VRelPW(c) == VSub(PointVelocity(particle[c.end1], c.cpos), _get_velocity(wall[c.end2]))

VRelMPMW(c) == VSub(mpm[c.end1].v, _get_velocity(wall[c.end2]))

AssemblePPStep(r) == particle' = r.particle /\ cplist' = r.cplist

AssembleCoupledStep(r) == mpm' = r.particle1 /\ particle' = r.particle2 /\ cplist' = r.cplist

AssemblePWStep(r) == particle' = r.particle /\ wall' = r.wall /\ cplist' = r.cplist

AssembleMPMWStep(r) == mpm' = r.particle /\ wall' = r.wall /\ cplist' = r.cplist

AssemblePP ==
    /\ assembled = "none"
    /\ \E v_rel \in {VRelPP(contact)} :
          LawEvaluable(surfaceProps[0], EffectiveValue(particle[0].m, particle[1].m),
                       contact.norm, v_rel, contact.dt, contact.old)
    /\ AssemblePPStep(_particle_particle_force_assemble(surfaceProps[0], contact.nc, contact.end1,
                    contact.end2, contact.gapn, contact.norm, contact.cpos, contact.dt,
                    particle, cplist))
    /\ assembled' = "pp"
    /\ UNCHANGED <<surfaceProps, mpm, wall, contact, tableVars, passVars, materialVars, storeVars, rebuildVars>>

AssembleCoupled ==
    /\ assembled = "none"
    /\ \E v_rel \in {VRelCoupled(contact)} :
          LawEvaluable(surfaceProps[0], EffectiveValue(mpm[0].m, particle[1].m),
                       contact.norm, v_rel, contact.dt, contact.old)
    /\ AssembleCoupledStep(_coupled_particle_force_assemble(surfaceProps[0], contact.nc, 0,
                    contact.end2, contact.gapn, contact.norm, contact.cpos, contact.dt,
                    mpm, particle, cplist))
    /\ assembled' = "coupled"
    /\ UNCHANGED <<surfaceProps, wall, contact, tableVars, passVars, materialVars, storeVars, rebuildVars>>

AssemblePW ==
    /\ assembled = "none"
    /\ \E v_rel \in {VRelPW(contact)} :
          LawEvaluable(surfaceProps[0], particle[0].m, contact.norm, v_rel,
                       contact.dt, contact.old)
    /\ AssemblePWStep(_particle_wall_force_assemble(surfaceProps[0], contact.nc, contact.end1,
                    contact.end2, contact.distance, contact.gapn, contact.norm, contact.cpos,
                    contact.dt, particle, wall, cplist))
    /\ assembled' = "pw"
    /\ UNCHANGED <<surfaceProps, mpm, contact, tableVars, passVars, materialVars, storeVars, rebuildVars>>

AssembleMPMW ==
    /\ assembled = "none"
    /\ \E v_rel \in {VRelMPMW(contact)} :
          LawEvaluable(surfaceProps[0], mpm[0].m, contact.norm, v_rel,
                       contact.dt, contact.old)
    /\ AssembleMPMWStep(_mpm_wall_force_assemble(surfaceProps[0], contact.nc, 0, contact.end2,
                    contact.distance, contact.gapn, contact.norm, contact.dt, mpm, wall, cplist))
    /\ assembled' = "mpmw"
    /\ UNCHANGED <<surfaceProps, particle, contact, tableVars, passVars, materialVars, storeVars, rebuildVars>>

NextForce == AssemblePP \/ AssembleCoupled \/ AssemblePW \/ AssembleMPMW

SpecForce == InitForce /\ [][NextForce]_vars

(***************************************************************************)
(* Claims about one contact (SpecForce).                                   *)
(***************************************************************************)
\* the force accumulated onto the first endpoint of the evaluated contact
ForceOnA ==
    IF assembled \in {"coupled", "mpmw"} THEN mpm[0].contact_force
                                         ELSE particle[contact.end1].contact_force

\* the force accumulated onto the second endpoint: a wall holds no
\* accumulator and nothing is accumulated onto it
ForceOnB ==
    IF assembled \in {"pw", "mpmw"} THEN ZEROVEC3f
                                    ELSE particle[contact.end2].contact_force

C8VRel == IF assembled = "pp" THEN VRelPP(contact) ELSE VRelPW(contact)

C8MEff ==
    IF assembled = "pp" THEN EffectiveValue(particle[0].m, particle[1].m) ELSE particle[0].m

C8Fraction == IF assembled = "pw" THEN RAbs(wall[contact.end2].coverage) ELSE R(1)

\* the two regimes of the claim: stick is the trial force plus damping and the
\* elastic displacement; slip is a force of magnitude limit along the trial
\* force and the overlap -(clipped force) / tangentialStiffness
C8Regimes(ks, limit, trial, unit, damping, elastic) ==
    IF RLt(limit, VNorm(trial))
    THEN [slip |-> TRUE, limit |-> limit, tangential |-> VScale(limit, unit),
          overlap |-> VScale(RNeg(RDiv(limit, ks)), unit)]
    ELSE [slip |-> FALSE, limit |-> limit, tangential |-> VAdd(trial, damping),
          overlap |-> elastic]

C8OfElastic(ks, limit, damping, elastic) ==
    CHOOSE e \in
        { C8Regimes(ks, limit, trial, unit, damping, elastic) :
            trial \in {VScale(RNeg(ks), elastic)},
            unit \in {VNormalized(VScale(RNeg(ks), elastic))} } : TRUE

C8OfKinematics(self, m_eff, dt, fn, vs, rotated) ==
    CHOOSE e \in
        { C8OfElastic(self.ks, limit, damping, elastic) :
            limit \in {RMul(self.mu, RAbs(fn))},
            damping \in {VScale(RMul(R(-2), RMul(self.sdratio, RSqrt(RMul(m_eff, self.ks)))), vs)},
            elastic \in {VAdd(rotated, VScale(dt, vs))} } : TRUE

\* the stored overlap turned into the present tangent plane, length kept
C8Rotated(old, norm) ==
    CHOOSE r \in
        { VScale(VNorm(old), Normalize(rot)) :
            rot \in {VSub(old, VScale(VDot(old, norm), norm))} } : TRUE

C8OfNormal(self, m_eff, gapn, dt, vn, vs, rotated) ==
    CHOOSE e \in
        { C8OfKinematics(self, m_eff, dt, fn, vs, rotated) :
            fn \in {RSub(RMul(RMul(R(-2), RMul(self.ndratio, RSqrt(RMul(m_eff, self.kn)))), vn),
                         RMul(self.kn, gapn))} } : TRUE

C8Of(self, m_eff, gapn, norm, v_rel, dt, old) ==
    CHOOSE e \in
        { C8OfNormal(self, m_eff, gapn, dt, vn, VSub(v_rel, VScale(vn, norm)), rotated) :
            vn \in {VDot(v_rel, norm)},
            rotated \in {C8Rotated(old, norm)} } : TRUE

\* regime, friction limit, tangential force and overlap the claim gives for
\* the contact that was assembled
C8Expected ==
    CHOOSE e \in
        { C8Of(surfaceProps[0], m_eff, contact.gapn, contact.norm, v_rel, contact.dt,
               contact.old) :
            v_rel \in {C8VRel}, m_eff \in {C8MEff} } : TRUE

\* C8 as stated: for every contact (particle-particle and particle-wall) the
\* output tangential force is the trial force plus damping in the stick regime
\* and has magnitude exactly mu * |normal force| along the trial force in the
\* slip regime, and the stored overlap is the elastic displacement (stick) or
\* -(clipped force) / tangentialStiffness (slip).
C8_AsStated ==
    assembled \in {"pp", "pw"} =>
        \A e \in {C8Expected} :
            /\ cplist[contact.nc].csforce = e.tangential
            /\ cplist[contact.nc].oldTangOverlap = e.overlap

\* C8 amended: the same two regimes, with the output tangential force of a
\* particle-wall contact being the coverage fraction of the wall times the
\* stick or slip force (the stored overlap is not scaled).
C8_FrictionCap ==
    assembled \in {"pp", "pw"} =>
        \A e \in {C8Expected} :
            /\ cplist[contact.nc].csforce = VScale(C8Fraction, e.tangential)
            /\ cplist[contact.nc].oldTangOverlap = e.overlap

C8_Witness ==
    /\ assembled = "pw"
    /\ C8Fraction = Half
    /\ cplist[contact.nc].csforce # ZEROVEC3f
    /\ \E e \in {C8Expected} :
          e.slip /\ VNorm(cplist[contact.nc].csforce) = RMul(Half, e.limit)

\* the force law of the particle-wall contact that was assembled, before the
\* coverage fraction is applied
C16Law ==
    CHOOSE law \in
        { LinearForceLaw(surfaceProps[0], particle[contact.end1].m, contact.gapn,
                         contact.norm, v_rel, contact.dt, contact.old) :
            v_rel \in {VRelPW(contact)} } : TRUE

\* C16: for a particle-boundary contact covered by the fraction f, the force
\* accumulated onto the particle is f times the unscaled normal + tangential
\* force and the moment accumulated onto it is f times the unscaled force
\* crossed with the lever arm.
C16_CoverageScaling ==
    assembled = "pw" =>
        \A law \in {C16Law} :
            \A F \in {VAdd(law.normal_force, law.tangential_force)} :
                /\ particle[contact.end1].contact_force = VScale(C8Fraction, F)
                /\ particle[contact.end1].contact_torque =
                      VScale(C8Fraction,
                             VCross(F, VSub(particle[contact.end1].x, contact.cpos)))

\* the square of the frictional limit mu * |normal force| of the record
C17LimitSq ==
    RMul(RMul(surfaceProps[0].mu, surfaceProps[0].mu), VNormSq(cplist[contact.nc].cnforce))

\* the tangential viscous damping force of the contact as the record holds it
\* (times the coverage fraction of a wall)
C17Damping ==
    CHOOSE d \in
        { VScale(C8Fraction, TangentialDamping(surfaceProps[0], m_eff, vs)) :
            m_eff \in {C8MEff}, vs \in {TangentialPart(C8VRel, contact.norm)} } : TRUE

\* C17 as stated: in the stick regime as well as in the slip regime the
\* magnitude of the tangential force stored in the ContactRecord does not
\* exceed the frictional limit mu * |normal force| of the contact.
C17_InFrictionCone ==
    assembled \in {"pp", "pw"} =>
        RLe(VNormSq(cplist[contact.nc].csforce), C17LimitSq)

\* C17 amended: in the slip regime the magnitude of the stored tangential
\* force is the frictional limit; in the stick regime the stored force less
\* its viscous damping term (the elastic trial force) does not exceed the
\* limit, the stored force itself being the trial force plus damping.
C17_ElasticInFrictionCone ==
    assembled \in {"pp", "pw"} =>
        \A e \in {C8Expected}, limitSq \in {C17LimitSq} :
            IF e.slip
            THEN VNormSq(cplist[contact.nc].csforce) = limitSq
            ELSE RLe(VNormSq(VSub(cplist[contact.nc].csforce, C17Damping)), limitSq)

\* a sticking contact whose trial force plus damping exceeds the limit
C17_Witness ==
    /\ assembled = "pp"
    /\ ~C8Expected.slip
    /\ RLt(C17LimitSq, VNormSq(cplist[contact.nc].csforce))
    /\ RLe(VNormSq(VSub(cplist[contact.nc].csforce, C17Damping)), C17LimitSq)

\* the signed component along the contact normal of the normal force the
\* record holds for endpoint A
C18NormalComponent == VDot(cplist[contact.nc].cnforce, contact.norm)

\* the spring term -stiffness * gap and the damping term the law subtracts,
\* 2 * ndratio * sqrt(m_eff * kn) * vn
C18Spring == RNeg(RMul(surfaceProps[0].kn, contact.gapn))

C18Damping ==
    CHOOSE d \in
        { RMul(RMul(RMul(R(2), surfaceProps[0].ndratio), root), vn) :
            root \in {RSqrt(RMul(C8MEff, surfaceProps[0].kn))},
            vn \in {VDot(C8VRel, contact.norm)} } : TRUE

C18Overlapping ==
    /\ assembled \in {"pp", "pw"}
    /\ RLt(contact.gapn, RZero)
    /\ RLt(RZero, surfaceProps[0].kn)

\* C18 as stated: for every overlapping contact with positive normal
\* stiffness the normal force on endpoint A has a non-negative component
\* along the contact normal, for every relative normal velocity.
C18_AlwaysRepulsive == C18Overlapping => RLe(RZero, C18NormalComponent)

\* C18 amended: the spring term is repulsive, and the normal force on
\* endpoint A is the coverage fraction times (spring term - damping term): it
\* is repulsive exactly when the damping term does not exceed the spring
\* term, which holds for every approaching contact and without damping.
C18_RepulsiveUnlessDamped ==
    C18Overlapping =>
        \A spring \in {C18Spring}, damping \in {C18Damping} :
            /\ RLt(RZero, spring)
            /\ C18NormalComponent = RMul(C8Fraction, RSub(spring, damping))
            /\ RLe(damping, spring) => RLe(RZero, C18NormalComponent)
            /\ (RLt(spring, damping) /\ C8Fraction # RZero) => RLt(C18NormalComponent, RZero)

\* a contact that separates fast enough for the damping to outweigh the spring
C18_Witness ==
    /\ C18Overlapping
    /\ assembled = "pp"
    /\ RLt(C18Spring, C18Damping)
    /\ RLt(C18NormalComponent, RZero)

\* the relative velocity and the effective mass of the contact that was
\* assembled, for each of the four assemblers
C20VRel ==
    CASE assembled = "coupled" -> VRelCoupled(contact)
      [] assembled = "pw" -> VRelPW(contact)
      [] assembled = "mpmw" -> VRelMPMW(contact)
      [] OTHER -> VRelPP(contact)

C20MEff ==
    CASE assembled = "coupled" -> EffectiveValue(mpm[0].m, particle[1].m)
      [] assembled = "pw" -> particle[0].m
      [] assembled = "mpmw" -> mpm[0].m
      [] OTHER -> EffectiveValue(particle[0].m, particle[1].m)

\* regime and friction limit mu * |normal force| of the contact that was
\* assembled, recomputed from its inputs
C20Expected ==
    CHOOSE e \in
        { C8Of(surfaceProps[0], m_eff, contact.gapn, contact.norm, v_rel, contact.dt,
               contact.old) :
            v_rel \in {C20VRel}, m_eff \in {C20MEff} } : TRUE

\* the square of ks * |stored tangential overlap|
C20ElasticSq ==
    RMul(RMul(surfaceProps[0].ks, surfaceProps[0].ks),
         VNormSq(cplist[contact.nc].oldTangOverlap))

\* C20: after each of the four assemblers the overlap stored in the
\* ContactRecord satisfies ks * |stored overlap| <= mu * |normal force|, with
\* equality when the contact slips.
C20_StoredOverlapInLimit ==
    assembled # "none" =>
        \A e \in {C20Expected} :
            /\ RLe(C20ElasticSq, RMul(e.limit, e.limit))
            /\ e.slip => C20ElasticSq = RMul(e.limit, e.limit)

\* a slipping material point on a wall whose stored overlap was shortened to
\* a positive limit
C20_Witness ==
    /\ assembled = "mpmw"
    /\ C20Expected.slip
    /\ RLt(RZero, C20Expected.limit)
    /\ cplist[contact.nc].oldTangOverlap # contact.old
    /\ C20ElasticSq = RMul(C20Expected.limit, C20Expected.limit)

\* a vector none of whose components is the result of a division by zero
C19Finite(u) == \A i \in 1..3 : u[i][2] # 0

\* every value the assemblers have written: the record of the contact and the
\* accumulators of the bodies
C19OutputsFinite ==
    /\ C19Finite(cplist[contact.nc].cnforce)
    /\ C19Finite(cplist[contact.nc].csforce)
    /\ C19Finite(cplist[contact.nc].oldTangOverlap)
    /\ \A i \in DOMAIN particle :
          C19Finite(particle[i].contact_force) /\ C19Finite(particle[i].contact_torque)
    /\ \A i \in DOMAIN mpm : C19Finite(mpm[i].contact_force)

\* the old overlap is the zero vector or parallel to the normal
C19DegenerateOverlap == TangentialPart(contact.old, contact.norm) = ZEROVEC3f

\* the trial force -ks * (rotated old overlap + dt * vs) of the contact
C19Trial ==
    VScale(RNeg(surfaceProps[0].ks),
           VAdd(C8Rotated(contact.old, contact.norm),
                VScale(contact.dt, TangentialPart(C20VRel, contact.norm))))

\* C19: with mu >= 0 the slip branch (which normalizes the trial force and
\* divides by ks) is entered only with a non-zero trial force and a non-zero
\* ks, no value written by an assembler comes from a division by zero, and a
\* contact whose old overlap is zero or parallel to the normal has a zero
\* rotated overlap: its elastic displacement is dt * vs.
C19_NoDivisionFault ==
    (assembled # "none" /\ RLe(RZero, surfaceProps[0].mu)) =>
        \A e \in {C20Expected}, vs \in {TangentialPart(C20VRel, contact.norm)} :
            /\ e.slip => /\ surfaceProps[0].ks # RZero
                         /\ RLe(RZero, e.limit)
                         /\ C19Trial # ZEROVEC3f
            /\ C19OutputsFinite
            /\ (C19DegenerateOverlap /\ ~e.slip) =>
                  cplist[contact.nc].oldTangOverlap = VScale(contact.dt, vs)

\* a material point sliding on a particle with ks = 0, mu = 0 and an old
\* overlap parallel to the normal: the trial force and the limit are both zero
C19_Witness ==
    /\ assembled = "coupled"
    /\ surfaceProps[0].ks = RZero
    /\ surfaceProps[0].mu = RZero
    /\ contact.old # ZEROVEC3f
    /\ C19DegenerateOverlap
    /\ cplist[contact.nc].oldTangOverlap # ZEROVEC3f
    /\ C19OutputsFinite

(***************************************************************************)
(* LinearModel: the property table.                                        *)
(***************************************************************************)
max_material_num == 2

MaxCalls == 2

Materials == 0 .. max_material_num - 1

ComponousIDs == 0 .. max_material_num * max_material_num - 1

\* LinearSurfaceProperty.field(shape=...): a zero-initialised slot (Linear.py 19)
ZeroProperty ==
    [kn |-> RZero, ks |-> RZero, mu |-> RZero, ndratio |-> RZero, sdratio |-> RZero]

\* LinearSurfaceProperty.add_surface_property (Linear.py 168-173)
SetSurfaceProperty(self, kn, ks, mu, ndratio, sdratio) ==
    [self EXCEPT !.kn = kn, !.ks = ks, !.mu = mu, !.ndratio = ndratio, !.sdratio = sdratio]

\* both orderings of a pair of distinct materials are written, one slot for
\* equal materials (Linear.py 43-50, 72-80)
StoreSymmetric(props, max, materialID1, materialID2, kn, ks, mu, ndratio, sdratio) ==
    IF materialID1 = materialID2
    THEN [props EXCEPT ![get_componousID(max, materialID1, materialID2)] =
                            SetSurfaceProperty(@, kn, ks, mu, ndratio, sdratio)]
    ELSE [props EXCEPT ![get_componousID(max, materialID1, materialID2)] =
                            SetSurfaceProperty(@, kn, ks, mu, ndratio, sdratio),
                       ![get_componousID(max, materialID2, materialID1)] =
                            SetSurfaceProperty(@, kn, ks, mu, ndratio, sdratio)]

\* the componousID that add/inherit_surface_property return: the one assigned
\* last (Linear.py 42-51, 71-81)
ReturnedComponousID(max, materialID1, materialID2) ==
    IF materialID1 = materialID2
    THEN get_componousID(max, materialID1, materialID2)
    ELSE get_componousID(max, materialID2, materialID1)

\* LinearModel.add_surface_property (Linear.py 36-51)
add_surface_property(props, max, materialID1, materialID2, property) ==
    StoreSymmetric(props, max, materialID1, materialID2,
                   property.NormalStiffness, property.TangentialStiffness, property.Friction,
                   property.NormalViscousDamping, property.TangentialViscousDamping)

\* mutant of inherit_surface_property: friction and damping take the larger
\* of the two inputs
inherit_surface_property_max(props, max, materialID1, materialID2, property1, property2) ==
    StoreSymmetric(props, max, materialID1, materialID2,
                   EffectiveValue(property1.NormalStiffness, property2.NormalStiffness),
                   EffectiveValue(property1.TangentialStiffness, property2.TangentialStiffness),
                   RMax(property1.Friction, property2.Friction),
                   RMax(property1.NormalViscousDamping, property2.NormalViscousDamping),
                   RMax(property1.TangentialViscousDamping, property2.TangentialViscousDamping))

\* LinearModel.inherit_surface_property (Linear.py 54-81)
inherit_surface_property(props, max, materialID1, materialID2, property1, property2) ==
    StoreSymmetric(props, max, materialID1, materialID2,
                   EffectiveValue(property1.NormalStiffness, property2.NormalStiffness),
                   EffectiveValue(property1.TangentialStiffness, property2.TangentialStiffness),
                   RMin(property1.Friction, property2.Friction),
                   RMin(property1.NormalViscousDamping, property2.NormalViscousDamping),
                   RMin(property1.TangentialViscousDamping, property2.TangentialViscousDamping))

\* override * old + value, with override 1 or 0 (Linear.py 84-87, 90)
UpdatedValue(override, old, value) ==
    RAdd(RMul(IF override THEN R(1) ELSE R(0), old), value)

\* LinearModel.update_property (Linear.py 83-98): one slot, one field; a name
\* that matches no branch changes nothing
update_property(props, componousID, property_name, value, override) ==
    CASE property_name = "NormalStiffness" ->
            [props EXCEPT ![componousID].kn = UpdatedValue(override, @, value)]
      [] property_name = "TangentialStiffness" ->
            [props EXCEPT ![componousID].ks = UpdatedValue(override, @, value)]
      [] property_name = "Friction" ->
            [props EXCEPT ![componousID].mu = UpdatedValue(override, @, value)]
      [] property_name = "NormalViscousDamping" ->
            [props EXCEPT ![componousID].ndratio = UpdatedValue(override, @, value)]
      [] property_name = "TangentialViscousDamping" ->
            [props EXCEPT ![componousID].sdratio = UpdatedValue(override, @, value)]
      [] OTHER -> props

PropertyOf(kn, ks, mu, ndratio, sdratio) ==
    [NormalStiffness |-> kn, TangentialStiffness |-> ks, Friction |-> mu,
     NormalViscousDamping |-> ndratio, TangentialViscousDamping |-> sdratio]

\* the property dictionaries a script hands to the table
Properties ==
    { PropertyOf(R(100), R(300), Half, R(1), R(0)),
      PropertyOf(R(300), R(100), R(1), Half, Half) }

PropertyNames ==
    {"NormalStiffness", "TangentialStiffness", "Friction", "NormalViscousDamping",
     "TangentialViscousDamping", "Restitution"}

UpdateValues == {R(1)}

InitTable ==
    /\ surfaceProps = [componousID \in ComponousIDs |-> ZeroProperty]
    /\ NoTable
    /\ NoMaterial
    /\ particle = <<>>
    /\ NoContactState
    /\ NoPass
    /\ NoStores
    /\ NoRebuild

AddSurfaceProperty ==
    /\ calls < MaxCalls
    /\ \E materialID1 \in Materials, materialID2 \in Materials, property \in Properties :
          /\ surfaceProps' = add_surface_property(surfaceProps, max_material_num,
                                                  materialID1, materialID2, property)
          /\ populated' = populated \cup {<<materialID1, materialID2>>,
                                          <<materialID2, materialID1>>}
          /\ lastCall' = [op |-> "add", materialID1 |-> materialID1,
                          materialID2 |-> materialID2, property |-> property,
                          componousID |-> ReturnedComponousID(max_material_num,
                                                              materialID1, materialID2)]
    /\ calls' = calls + 1
    /\ UNCHANGED <<particle, contactVars, passVars, materialVars, storeVars, rebuildVars>>

InheritSurfaceProperty ==
    /\ calls < MaxCalls
    /\ \E materialID1 \in Materials, materialID2 \in Materials,
          property1 \in Properties, property2 \in Properties :
          /\ surfaceProps' = inherit_surface_property(surfaceProps, max_material_num,
                                 materialID1, materialID2, property1, property2)
          /\ populated' = populated \cup {<<materialID1, materialID2>>,
                                          <<materialID2, materialID1>>}
          /\ lastCall' = [op |-> "inherit", materialID1 |-> materialID1,
                          materialID2 |-> materialID2, property1 |-> property1,
                          property2 |-> property2,
                          componousID |-> ReturnedComponousID(max_material_num,
                                                              materialID1, materialID2)]
    /\ calls' = calls + 1
    /\ UNCHANGED <<particle, contactVars, passVars, materialVars, storeVars, rebuildVars>>

UpdateProperty ==
    /\ calls < MaxCalls
    /\ \E componousID \in ComponousIDs, property_name \in PropertyNames,
          value \in UpdateValues, override \in BOOLEAN :
          /\ surfaceProps' = update_property(surfaceProps, componousID, property_name,
                                             value, override)
          /\ lastCall' = [op |-> "update", componousID |-> componousID,
                          property_name |-> property_name, value |-> value,
                          override |-> override, before |-> surfaceProps[componousID]]
    /\ calls' = calls + 1
    /\ UNCHANGED <<populated, particle, contactVars, passVars, materialVars, storeVars, rebuildVars>>

NextTable == AddSurfaceProperty \/ InheritSurfaceProperty \/ UpdateProperty

SpecTable == InitTable /\ [][NextTable]_vars

(***************************************************************************)
(* Claims about the property table (SpecTable).                            *)
(***************************************************************************)
\* C9: after any sequence of add_surface_property, inherit_surface_property
\* and update_property calls, for every populated pair of distinct materials
\* (a, b) the record at the composite index of (a, b) equals, field for field,
\* the record at the composite index of (b, a).
C9_IndexSymmetry ==
    \A a \in Materials, b \in Materials :
        (a # b /\ <<a, b>> \in populated) =>
            surfaceProps[get_componousID(max_material_num, a, b)] =
                surfaceProps[get_componousID(max_material_num, b, a)]

\* the inherited record r of the inputs property1 and property2: harmonic
\* stiffnesses, minimal friction and damping ratios
C10Inherited(r, property1, property2) ==
    /\ RMul(r.kn, RAdd(property1.NormalStiffness, property2.NormalStiffness)) =
           RMul(R(2), RMul(property1.NormalStiffness, property2.NormalStiffness))
    /\ RMul(r.ks, RAdd(property1.TangentialStiffness, property2.TangentialStiffness)) =
           RMul(R(2), RMul(property1.TangentialStiffness, property2.TangentialStiffness))
    /\ r.mu \in {property1.Friction, property2.Friction}
    /\ RLe(r.mu, property1.Friction) /\ RLe(r.mu, property2.Friction)
    /\ r.ndratio \in {property1.NormalViscousDamping, property2.NormalViscousDamping}
    /\ RLe(r.ndratio, property1.NormalViscousDamping)
    /\ RLe(r.ndratio, property2.NormalViscousDamping)
    /\ r.sdratio \in {property1.TangentialViscousDamping, property2.TangentialViscousDamping}
    /\ RLe(r.sdratio, property1.TangentialViscousDamping)
    /\ RLe(r.sdratio, property2.TangentialViscousDamping)

\* C10: inherit_surface_property stores, for the material pair (in both
\* orderings), stiffnesses 2*k1*k2/(k1+k2) of the two inputs and friction and
\* damping ratios equal to the minimum of the two inputs.
C10_Inheritance ==
    lastCall.op = "inherit" =>
        \A componousID \in {get_componousID(max_material_num, lastCall.materialID1,
                                            lastCall.materialID2),
                            get_componousID(max_material_num, lastCall.materialID2,
                                            lastCall.materialID1)} :
            C10Inherited(surfaceProps[componousID], lastCall.property1, lastCall.property2)

\* stiffnesses 100 and 300 have been inherited as 150, friction 1/2 and 1 as 1/2
C10_Witness ==
    /\ lastCall.op = "inherit"
    /\ lastCall.materialID1 # lastCall.materialID2
    /\ lastCall.property1.NormalStiffness = R(100)
    /\ lastCall.property2.NormalStiffness = R(300)
    /\ surfaceProps[lastCall.componousID].kn = R(150)
    /\ surfaceProps[lastCall.componousID].ks = R(150)
    /\ surfaceProps[lastCall.componousID].mu = Half
    /\ surfaceProps[lastCall.componousID].ndratio = Half
    /\ surfaceProps[lastCall.componousID].sdratio = R(0)

\* the scalar field of a property record that update_property names
FieldOf(record, property_name) ==
    CASE property_name = "NormalStiffness" -> record.kn
      [] property_name = "TangentialStiffness" -> record.ks
      [] property_name = "Friction" -> record.mu
      [] property_name = "NormalViscousDamping" -> record.ndratio
      [] property_name = "TangentialViscousDamping" -> record.sdratio

\* C14: update_property with override true sets the named field of record
\* componousID to exactly value; with override false it sets the field to its
\* previous value plus value.
C14_OverrideOrAdd ==
    (lastCall.op = "update" /\ lastCall.property_name # "Restitution") =>
        FieldOf(surfaceProps[lastCall.componousID], lastCall.property_name) =
            IF lastCall.override THEN lastCall.value
            ELSE RAdd(FieldOf(lastCall.before, lastCall.property_name), lastCall.value)

(***************************************************************************)
(* One Force Assembler pass: the accumulate operations of concurrent tasks. *)
(***************************************************************************)
NTasks == 2

Tasks == 1 .. NTasks

\* the two accumulate calls of a particle-particle contact (Linear.py 235-236)
\* with only the first endpoint updated: the mutant of PPAccumulateCalls
PPAccumulateFirstOnly(end1, end2, arm1, arm2, Ftotal, moment) ==
    << [target |-> end1, force |-> Ftotal, torque |-> VScale(arm1, moment)] >>

\* the two accumulate calls of a particle-particle contact (Linear.py 235-236)
PPAccumulateCalls(end1, end2, arm1, arm2, Ftotal, moment) ==
    << [target |-> end1, force |-> Ftotal, torque |-> VScale(arm1, moment)],
       [target |-> end2, force |-> Reaction(Ftotal), torque |-> VScale(arm2, moment)] >>

\* the accumulate call of a particle-wall contact (Linear.py 320)
PWAccumulateCalls(end1, Ftotal, resultant_momentum) ==
    << [target |-> end1, force |-> Ftotal, torque |-> resultant_momentum] >>

\* _update_contact_interaction adds in place; in a kernel each += on a vector
\* is one indivisible read-modify-write per scalar component
ScalarAdds(call) ==
    [k \in 1 .. 6 |->
        [target |-> call.target,
         field |-> IF k <= 3 THEN "contact_force" ELSE "contact_torque",
         component |-> IF k <= 3 THEN k ELSE k - 3,
         value |-> IF k <= 3 THEN call.force[k] ELSE call.torque[k - 3]]]

\* one atomic add on one scalar component of an accumulator
AtomicAdd(p, add) ==
    IF add.field = "contact_force"
    THEN [p EXCEPT !.contact_force[add.component] = RAdd(@, add.value)]
    ELSE [p EXCEPT !.contact_torque[add.component] = RAdd(@, add.value)]

RECURSIVE Flatten(_)
Flatten(updates) ==
    IF updates = <<>> THEN <<>> ELSE ScalarAdds(Head(updates)) \o Flatten(Tail(updates))

\* the atomic adds of one task, in program order
TaskAdds(task) ==
    IF task.kind = "pp"
    THEN Flatten(PPAccumulateCalls(task.end1, task.end2, task.arm1, task.arm2,
                                   task.Ftotal, task.moment))
    ELSE Flatten(PWAccumulateCalls(task.end1, task.Ftotal, task.moment))

\* contact t of the pass touches particle 0: as its first endpoint, as its
\* second endpoint, or as the particle of a particle-wall contact
TaskShapes(t) ==
    { [kind |-> "pp", end1 |-> 0, end2 |-> t], [kind |-> "pp", end1 |-> t, end2 |-> 0],
      [kind |-> "pw", end1 |-> 0, end2 |-> t] }

TaskOf(t, shape) ==
    [kind |-> shape.kind, end1 |-> shape.end1, end2 |-> shape.end2,
     arm1 |-> R(2), arm2 |-> R(3),
     Ftotal |-> V(t, 0 - t, 1), moment |-> V(0, t, 2)]

AccumulatorsBefore == [Body(ZEROVEC3f, ZEROVEC3f, ZEROVEC3f)
                          EXCEPT !.contact_force = V(1, 1, 1), !.contact_torque = V(0, 0, 5)]

InitPass ==
    /\ \E shapes \in [Tasks -> UNION {TaskShapes(t) : t \in Tasks}] :
          /\ \A t \in Tasks : shapes[t] \in TaskShapes(t)
          /\ accumulate = [task |-> [t \in Tasks |-> TaskOf(t, shapes[t])],
                           pc |-> [t \in Tasks |-> 0],
                           interleaved |-> FALSE]
    /\ particle = [i \in 0 .. NTasks |-> AccumulatorsBefore]
    /\ surfaceProps = <<>>
    /\ NoContactState
    /\ NoTable
    /\ NoMaterial
    /\ NoStores
    /\ NoRebuild

TaskRunning(t) ==
    accumulate.pc[t] > 0 /\ accumulate.pc[t] < Len(TaskAdds(accumulate.task[t]))

\* one task performs its next atomic add
AccumulateStep ==
    /\ \E t \in Tasks :
          /\ accumulate.pc[t] < Len(TaskAdds(accumulate.task[t]))
          /\ \E add \in {TaskAdds(accumulate.task[t])[accumulate.pc[t] + 1]} :
                particle' = [particle EXCEPT ![add.target] = AtomicAdd(@, add)]
          /\ accumulate' = [accumulate EXCEPT
                                !.pc[t] = @ + 1,
                                !.interleaved = @ \/ \E u \in Tasks \ {t} : TaskRunning(u)]
    /\ UNCHANGED <<surfaceProps, contactVars, tableVars, storeVars, rebuildVars, materialVars>>

NextPass == AccumulateStep

SpecPass == InitPass /\ [][NextPass]_vars

(***************************************************************************)
(* Claims about one pass (SpecPass).                                       *)
(***************************************************************************)
PassDone == \A t \in Tasks : accumulate.pc[t] = Len(TaskAdds(accumulate.task[t]))

\* what contact t contributes to particle 0: force and moment
C6Force(task) == IF task.end1 = 0 THEN task.Ftotal ELSE VNeg(task.Ftotal)

C6Moment(task) ==
    IF task.kind = "pw" THEN task.moment
    ELSE IF task.end1 = 0 THEN VScale(task.arm1, task.moment)
    ELSE VScale(task.arm2, task.moment)

RECURSIVE C6SumForce(_)
C6SumForce(n) ==
    IF n = 0 THEN AccumulatorsBefore.contact_force
    ELSE VAdd(C6SumForce(n - 1), C6Force(accumulate.task[n]))

RECURSIVE C6SumMoment(_)
C6SumMoment(n) ==
    IF n = 0 THEN AccumulatorsBefore.contact_torque
    ELSE VAdd(C6SumMoment(n - 1), C6Moment(accumulate.task[n]))

\* C6: when the N tasks of a pass all touch one endpoint, then for every
\* interleaving of their accumulate operations the endpoint's total contact
\* force and moment after the pass are their values before the pass plus the
\* sum of the N contributions.
C6_Accumulation ==
    PassDone =>
        /\ particle[0].contact_force = C6SumForce(NTasks)
        /\ particle[0].contact_torque = C6SumMoment(NTasks)

\* a finished pass whose tasks ran interleaved, one of them reaching the shared
\* particle as its second endpoint
C6_Witness ==
    /\ PassDone
    /\ accumulate.interleaved
    /\ \E t \in Tasks : accumulate.task[t].end2 = 0
    /\ particle[0].contact_force # AccumulatorsBefore.contact_force
    /\ particle[0].contact_torque # AccumulatorsBefore.contact_torque

(***************************************************************************)
(* The time steps of one contact class under one resolution strategy:      *)
(* broad phase, Identity Resolver, Force Assembler, snapshot.              *)
(***************************************************************************)
Sims ==
    [potential_particle_num |-> potential_particle_num,
     wall_coordination_number |-> wall_coordination_number]

Scene == [particleNum |-> particleNum]

StoreSize(class) ==
    particleNum * (IF class = "pp" THEN potential_particle_num ELSE wall_coordination_number)

Capacity(class) ==
    IF class = "pp" THEN Sims.potential_particle_num ELSE Sims.wall_coordination_number

RECURSIVE CountBefore(_, _)
CountBefore(potential_list, i) ==
    IF i = 0 THEN 0
    ELSE CountBefore(potential_list, i - 1) + Len(potential_list[i - 1])

\* the cumulative counts of a candidate table
Cumulative(potential_list) == [i \in 0 .. particleNum |-> CountBefore(potential_list, i)]

PartnerLists == { <<>>, <<1, 2>>, <<2, 3>>, <<1, 2, 3>> }

\* the candidate tables of the broad phase: owner 0 with up to three
\* partners, owner 1 with partner 2 or none, the other owners with none
CandidateTables ==
    { [i \in Owners(particleNum) |-> IF i = 0 THEN first ELSE IF i = 1 THEN second ELSE <<>>] :
        first \in PartnerLists, second \in { <<>>, <<2>> } }

NoOverlaps == [pair \in {} |-> ZEROVEC3f]

CountsOf(class) == IF class = "pp" THEN pcontact.particle_particle ELSE pcontact.particle_wall

HistCountsOf(class) ==
    IF class = "pp" THEN pcontact.hist_particle_particle ELSE pcontact.hist_particle_wall

PotentialListOf(class) ==
    IF class = "pp" THEN pcontact.potential_list_particle_particle
    ELSE pcontact.potential_list_particle_wall

\* self as the drivers see it; active_contactNum are the counts of the
\* records the store holds before the update
Self ==
    [cplist |-> cplist, hist_cplist |-> hist_cplist,
     active_contactNum |-> HistCountsOf(mode.class)]

InitStores ==
    /\ mode \in [class : {"pp", "pw"}, strategy : {"rebuild", "bit_table"}]
    /\ cplist = [k \in 0 .. StoreSize(mode.class) - 1 |-> ZeroContact]
    /\ hist_cplist = [k \in 0 .. StoreSize(mode.class) - 1 |-> ZeroHistory]
    /\ pcontact = [particle_particle |-> [i \in 0 .. particleNum |-> 0],
                   hist_particle_particle |-> [i \in 0 .. particleNum |-> 0],
                   potential_list_particle_particle |-> [i \in Owners(particleNum) |-> <<>>],
                   particle_wall |-> [i \in 0 .. particleNum |-> 0],
                   hist_particle_wall |-> [i \in 0 .. particleNum |-> 0],
                   potential_list_particle_wall |-> [i \in Owners(particleNum) |-> <<>>]]
    /\ phase = "candidates"
    /\ err = "none"
    /\ overlaps = [stored |-> NoOverlaps, carried |-> NoOverlaps, used |-> NoOverlaps,
                   dropped |-> {}]
    /\ surfaceProps = <<>>
    /\ particle = <<>>
    /\ mpm = <<>> /\ wall = <<>> /\ contact = <<>> /\ assembled = "none"
    /\ NoTable
    /\ NoMaterial
    /\ NoPass
    /\ NoRebuild

otherVars ==
    <<surfaceProps, particle, mpm, wall, contact, assembled, populated, lastCall, calls,
      accumulate, contact_info, outOfBounds, materialVars>>

\* the neighbour search: the counts of the last step become the history
\* counts (the first search after a rebuild keeps the counts the rebuild has
\* written) and the candidate table is replaced.  The bit-table kernels are
\* given tables within the capacity only.  A run continued from an export is
\* followed for one step.
BroadPhase ==
    /\ phase \in {"candidates", "rebuilt"}
    /\ contact_info = <<>> \/ phase = "rebuilt"
    /\ err = "none"
    /\ \E potential_list \in CandidateTables :
          /\ mode.strategy = "bit_table" =>
                ~ExceedsCapacity(Capacity(mode.class), particleNum, potential_list)
          /\ pcontact' =
                IF mode.class = "pp"
                THEN [pcontact EXCEPT
                        !.hist_particle_particle =
                            IF phase = "rebuilt" THEN @ ELSE pcontact.particle_particle,
                        !.particle_particle = Cumulative(potential_list),
                        !.potential_list_particle_particle = potential_list]
                ELSE [pcontact EXCEPT
                        !.hist_particle_wall =
                            IF phase = "rebuilt" THEN @ ELSE pcontact.particle_wall,
                        !.particle_wall = Cumulative(potential_list),
                        !.potential_list_particle_wall = potential_list]
    /\ phase' = "resolve"
    /\ UNCHANGED <<cplist, hist_cplist, mode, err, overlaps, otherVars>>

ResolveStep(r) ==
    /\ cplist' = r.cplist
    /\ hist_cplist' = r.hist_cplist
    /\ err' = r.err
    /\ phase' = IF r.err = "none" THEN "assemble" ELSE "aborted"
    /\ UNCHANGED <<pcontact, mode, overlaps, otherVars>>

\* what a force evaluation leaves: the overlaps it stored, for the pairs that
\* were active before it the overlaps stored then, the overlaps it read, and
\* the pairs that were active before it and are no more
Evaluated(tangOverlapOld) ==
    [stored |-> [pair \in DOMAIN tangOverlapOld |-> StoredOverlap(pair, tangOverlapOld[pair])],
     carried |-> [pair \in DOMAIN tangOverlapOld \cap DOMAIN overlaps.stored |->
                    overlaps.stored[pair]],
     used |-> tangOverlapOld,
     dropped |-> DOMAIN overlaps.stored \ DOMAIN tangOverlapOld]

AssembleStep(r) ==
    /\ cplist' = r.cplist
    /\ overlaps' = Evaluated(r.tangOverlapOld)
    /\ phase' = "candidates"
    /\ UNCHANGED <<hist_cplist, pcontact, mode, err, otherVars>>

BitTableStep(r) ==
    /\ cplist' = r.cplist
    /\ hist_cplist' = r.hist_cplist
    /\ overlaps' = Evaluated(r.tangOverlapOld)
    /\ phase' = "candidates"
    /\ UNCHANGED <<pcontact, mode, err, otherVars>>

UpdateParticleParticleContactTable ==
    /\ mode = [class |-> "pp", strategy |-> "rebuild"]
    /\ phase = "resolve"
    /\ ResolveStep(update_particle_particle_contact_table(Self, Sims, Scene, pcontact))

UpdateParticleWallContactTable ==
    /\ mode = [class |-> "pw", strategy |-> "rebuild"]
    /\ phase = "resolve"
    /\ ResolveStep(update_particle_wall_contact_table(Self, Sims, Scene, pcontact))

TackleParticleParticleContactCplist ==
    /\ mode = [class |-> "pp", strategy |-> "rebuild"]
    /\ phase = "assemble"
    /\ AssembleStep(tackle_particle_particle_contact_cplist(Self, Sims, Scene, pcontact))

TackleParticleWallContactCplist ==
    /\ mode = [class |-> "pw", strategy |-> "rebuild"]
    /\ phase = "assemble"
    /\ AssembleStep(tackle_particle_wall_contact_cplist(Self, Sims, Scene, pcontact))

TackleParticleParticleContactBitTable ==
    /\ mode = [class |-> "pp", strategy |-> "bit_table"]
    /\ phase = "resolve"
    /\ BitTableStep(tackle_particle_particle_contact_bit_table(Self, Sims, Scene, pcontact))

TackleParticleWallContactBitTable ==
    /\ mode = [class |-> "pw", strategy |-> "bit_table"]
    /\ phase = "resolve"
    /\ BitTableStep(tackle_particle_wall_contact_bit_table(Self, Sims, Scene, pcontact))

NextStores ==
    \/ BroadPhase
    \/ UpdateParticleParticleContactTable
    \/ UpdateParticleWallContactTable
    \/ TackleParticleParticleContactCplist
    \/ TackleParticleWallContactCplist
    \/ TackleParticleParticleContactBitTable
    \/ TackleParticleWallContactBitTable

SpecStores == InitStores /\ [][NextStores]_vars

ResolvedByRebuild == mode.strategy = "rebuild" /\ phase = "assemble" /\ err = "none"

EvaluatedStep == phase = "candidates" /\ err = "none"

\* C1: after a full rebuild (snapshot, regenerate, inherit) every record of a
\* pair that was active at the end of the last step holds exactly the overlap
\* the force evaluation stored for the pair then, in whichever slot it is now.
C1_FullRebuildContinuity ==
    ResolvedByRebuild =>
        \A k \in ActiveSlots(CountsOf(mode.class), particleNum) :
            PairOf(cplist[k]) \in DOMAIN overlaps.stored =>
                cplist[k].oldTangOverlap = overlaps.stored[PairOf(cplist[k])]

\* a continuing pair has moved to another slot and has kept its overlap
C1_Witness ==
    /\ ResolvedByRebuild
    /\ \E k \in ActiveSlots(CountsOf(mode.class), particleNum) :
          /\ PairOf(cplist[k]) \in DOMAIN overlaps.stored
          /\ hist_cplist[k].DstID # cplist[k].endID2
          /\ cplist[k].oldTangOverlap # ZEROVEC3f
          /\ cplist[k].oldTangOverlap = overlaps.stored[PairOf(cplist[k])]

\* C2: under the bit-table strategy the force evaluation reads, for every
\* pair that was active at the end of the last step, exactly the overlap
\* stored for it then.
C2_BitTableContinuity ==
    (mode.strategy = "bit_table" /\ EvaluatedStep) =>
        \A pair \in DOMAIN overlaps.carried : overlaps.used[pair] = overlaps.carried[pair]

\* an owner has kept one pair, lost one and gained one in the same step, and
\* the new pair sits in the store before the kept one
C2_Witness ==
    /\ mode.strategy = "bit_table"
    /\ EvaluatedStep
    /\ \E kept \in DOMAIN overlaps.carried, lost \in overlaps.dropped,
          new \in DOMAIN overlaps.used \ DOMAIN overlaps.carried :
          /\ kept[1] = lost[1] /\ kept[1] = new[1]
          /\ overlaps.used[kept] = overlaps.carried[kept]
          /\ overlaps.used[kept] # ZEROVEC3f
          /\ \E k \in DOMAIN cplist : PairOf(cplist[k]) = new /\ PairOf(cplist[k + 1]) = kept

\* C3: under either strategy the force evaluation reads the zero overlap for
\* every pair that was not active at the end of the last step.
C3_NewContactsFromZero ==
    EvaluatedStep =>
        \A pair \in DOMAIN overlaps.used \ DOMAIN overlaps.carried :
            overlaps.used[pair] = ZEROVEC3f

\* a pair that had been active before re-forms: the snapshot of the full
\* rebuild still holds its partner with an overlap of the pair, and the
\* evaluation read zero
C3_Witness ==
    /\ mode.strategy = "rebuild"
    /\ EvaluatedStep
    /\ \E pair \in DOMAIN overlaps.used \ DOMAIN overlaps.carried :
          /\ overlaps.used[pair] = ZEROVEC3f
          /\ \E h \in DOMAIN hist_cplist :
                /\ hist_cplist[h].DstID = pair[2]
                /\ hist_cplist[h].oldTangOverlap \in
                      { StoredOverlap(pair, old) : old \in {ZEROVEC3f, V(1, 0, 0)} }

AfterRebuild == mode.strategy = "rebuild" /\ phase \in {"assemble", "aborted"}

C15Pass == phase = "assemble" /\ phase' = "candidates"

\* C15 as stated: a Force Assembler pass leaves the ContactRecord store and
\* the HistoryRecord store with the contents they had before it.
C15_StoresReadOnly == [][C15Pass => (cplist' = cplist /\ hist_cplist' = hist_cplist)]_vars

\* C15 amended: a Force Assembler pass leaves the HistoryRecord store, the
\* endpoints of every ContactRecord and every ContactRecord outside the active
\* contact indices as they were; the task of an active contact index writes
\* the overlap (and forces) of the record of that index and of no other.
C15_OwnRecordOnly ==
    [][C15Pass =>
        /\ hist_cplist' = hist_cplist
        /\ \A k \in DOMAIN cplist :
              /\ PairOf(cplist'[k]) = PairOf(cplist[k])
              /\ k \notin ActiveSlots(CountsOf(mode.class), particleNum) =>
                    cplist'[k] = cplist[k]
              /\ k \in ActiveSlots(CountsOf(mode.class), particleNum) =>
                    cplist'[k].oldTangOverlap =
                        StoredOverlap(PairOf(cplist[k]), cplist[k].oldTangOverlap)]_vars

\* after a pass over two active contacts: a record holds an overlap other
\* than the one the pass read from it, and a record outside the active
\* indices still holds a contact of an earlier step
C15_Witness ==
    /\ mode.strategy = "rebuild"
    /\ EvaluatedStep
    /\ \E k, j \in ActiveSlots(CountsOf(mode.class), particleNum) :
          /\ k # j
          /\ cplist[k].oldTangOverlap # overlaps.used[PairOf(cplist[k])]
    /\ \E i \in DOMAIN cplist \ ActiveSlots(CountsOf(mode.class), particleNum) :
          cplist[i] # ZeroContact

(***************************************************************************)
(* rebuild_ppcontact_list / rebuild_pwcontact_list on one export.          *)
(***************************************************************************)
\* the exports: owner 0 with first pairs, owner 1 with the rest of the last
\* cumulative count, and length partner ids and overlaps, whether or not
\* the length is the last cumulative count
ExportOf(first, last, length) ==
    [contact_num |-> [i \in 0 .. particleNum |-> IF i = 0 THEN 0 ELSE IF i = 1 THEN first ELSE last],
     end2 |-> [cp \in 0 .. length - 1 |-> 1 + (cp % 3)],
     oldTangentialOverlap |-> [cp \in 0 .. length - 1 |-> V(1, cp, 0)]]

Exports(class) ==
    { ExportOf(first, last, length) :
        first \in {0, 1}, last \in 1 .. StoreSize(class) + 2,
        length \in 0 .. StoreSize(class) + 1 }

\* what a read past the end of an array may return
Garbage ==
    { [DstID |-> id, oldTangOverlap |-> V(x, 0, 0)] : id \in {0, 3}, x \in {0, 5} }

InitRebuild ==
    /\ mode \in [class : {"pp", "pw"}, strategy : {"rebuild"}]
    /\ contact_info \in Exports(mode.class)
    /\ outOfBounds = FALSE
    /\ cplist = [k \in 0 .. StoreSize(mode.class) - 1 |-> ZeroContact]
    /\ hist_cplist = [k \in 0 .. StoreSize(mode.class) - 1 |-> ZeroHistory]
    /\ pcontact = [particle_particle |-> [i \in 0 .. particleNum |-> 0],
                   hist_particle_particle |-> [i \in 0 .. particleNum |-> 0],
                   potential_list_particle_particle |-> [i \in Owners(particleNum) |-> <<>>],
                   particle_wall |-> [i \in 0 .. particleNum |-> 0],
                   hist_particle_wall |-> [i \in 0 .. particleNum |-> 0],
                   potential_list_particle_wall |-> [i \in Owners(particleNum) |-> <<>>]]
    /\ phase = "rebuild"
    /\ err = "none"
    /\ overlaps = <<>>
    /\ surfaceProps = <<>>
    /\ particle = <<>>
    /\ mpm = <<>> /\ wall = <<>> /\ contact = <<>> /\ assembled = "none"
    /\ NoTable
    /\ NoMaterial
    /\ NoPass

RebuildStep(r) ==
    /\ err' = r.err
    /\ hist_cplist' = r.hist_cplist
    /\ outOfBounds' = r.outOfBounds
    /\ phase' = IF r.err = "none" THEN "rebuilt" ELSE "aborted"
    /\ UNCHANGED <<surfaceProps, particle, mpm, wall, cplist, contact, assembled,
                   tableVars, passVars, materialVars, mode, overlaps, contact_info>>

RebuildPPContactList ==
    /\ mode.class = "pp"
    /\ phase = "rebuild"
    /\ \E garbage \in Garbage :
          \E r \in {rebuild_ppcontact_list(Self, pcontact, contact_info, garbage)} :
              /\ RebuildStep(r)
              /\ pcontact' = [pcontact EXCEPT !.hist_particle_particle = r.hist_object_object]

RebuildPWContactList ==
    /\ mode.class = "pw"
    /\ phase = "rebuild"
    /\ \E garbage \in Garbage :
          \E r \in {rebuild_pwcontact_list(Self, pcontact, contact_info, garbage)} :
              /\ RebuildStep(r)
              /\ pcontact' = [pcontact EXCEPT !.hist_particle_wall = r.hist_object_object]

NextRebuild == RebuildPPContactList \/ RebuildPWContactList

SpecRebuild == InitRebuild /\ [][NextRebuild]_vars

LastCount(export) == export.contact_num[Shape(export.contact_num) - 1]

\* C5: rebuild_ppcontact_list / rebuild_pwcontact_list reject, with the
\* configuration error and no HistoryRecord written, every export whose last
\* cumulative count exceeds the size of the store, and the copy loop of an
\* accepted export stays within the store and the supplied arrays.
C5_RebuildCapacityCheck ==
    phase \in {"rebuilt", "aborted"} =>
        /\ LastCount(contact_info) > Shape(hist_cplist) =>
              /\ err = "capacity"
              /\ \A cp \in DOMAIN hist_cplist : hist_cplist[cp] = ZeroHistory
        /\ err = "none" => ~outOfBounds

(***************************************************************************)
(* A run that is saved at the end of a step and continued from the export. *)
(***************************************************************************)
GetPPContactOutput ==
    /\ mode.class = "pp"
    /\ phase = "candidates"
    /\ err = "none"
    /\ contact_info = <<>>
    /\ contact_info' = get_ppcontact_output(Self, Scene, pcontact)
    /\ phase' = "rebuild"
    /\ UNCHANGED <<surfaceProps, particle, mpm, wall, cplist, contact, assembled, tableVars,
                   passVars, materialVars, hist_cplist, pcontact, mode, err, overlaps, outOfBounds>>

GetPWContactOutput ==
    /\ mode.class = "pw"
    /\ phase = "candidates"
    /\ err = "none"
    /\ contact_info = <<>>
    /\ contact_info' = get_pwcontact_output(Self, Scene, pcontact)
    /\ phase' = "rebuild"
    /\ UNCHANGED <<surfaceProps, particle, mpm, wall, cplist, contact, assembled, tableVars,
                   passVars, materialVars, hist_cplist, pcontact, mode, err, overlaps, outOfBounds>>

\* the run is continued by a new process: the stores and the count tables
\* of a model that has just been constructed
Restart ==
    /\ phase = "rebuild"
    /\ cplist' = [k \in DOMAIN cplist |-> ZeroContact]
    /\ hist_cplist' = [k \in DOMAIN hist_cplist |-> ZeroHistory]
    /\ pcontact' = [particle_particle |-> [i \in 0 .. particleNum |-> 0],
                    hist_particle_particle |-> [i \in 0 .. particleNum |-> 0],
                    potential_list_particle_particle |-> [i \in Owners(particleNum) |-> <<>>],
                    particle_wall |-> [i \in 0 .. particleNum |-> 0],
                    hist_particle_wall |-> [i \in 0 .. particleNum |-> 0],
                    potential_list_particle_wall |-> [i \in Owners(particleNum) |-> <<>>]]
    /\ UNCHANGED <<surfaceProps, particle, mpm, wall, contact, assembled, tableVars, passVars, materialVars,
                   mode, phase, err, overlaps, rebuildVars>>

NextRestart ==
    \/ NextStores
    \/ GetPPContactOutput
    \/ GetPWContactOutput
    \/ Restart
    \/ RebuildPPContactList
    \/ RebuildPWContactList

SpecRestart == InitStores /\ [][NextRestart]_vars

\* C12: the export of a contact class taken at the end of a step and fed to
\* rebuild_ppcontact_list / rebuild_pwcontact_list leaves the HistoryRecord
\* store with the exported partner id and overlap at every exported contact
\* index and the history count table equal to the exported counts, and the
\* force evaluation of the next step reads, for every pair that was active at
\* the end of the step of the export, the overlap stored for it then, as a run
\* that was not interrupted does.
C12_ExportRebuildRoundTrip ==
    /\ phase = "rebuilt" =>
          /\ \A cp \in DOMAIN contact_info.end2 :
                /\ hist_cplist[cp].DstID = contact_info.end2[cp]
                /\ hist_cplist[cp].oldTangOverlap = contact_info.oldTangentialOverlap[cp]
          /\ HistCountsOf(mode.class) = contact_info.contact_num
    /\ (contact_info # <<>> /\ EvaluatedStep) =>
          \A pair \in DOMAIN overlaps.carried : overlaps.used[pair] = overlaps.carried[pair]

(***************************************************************************)
(* A contact of a corrupted candidate table handed to the assembler.       *)
(***************************************************************************)
\* what a read of scene.particle past the end of the store may return
GarbageBodies ==
    { [x |-> ZEROVEC3f, v |-> v, w |-> ZEROVEC3f, m |-> ForceMass, rad |-> ForceRadius,
       contact_force |-> ZEROVEC3f, contact_torque |-> ZEROVEC3f] :
        v \in {ZEROVEC3f, V(4, 0, 0)} }

\* scene.particle as the accesses particle[end1], particle[end2] of the
\* assembler see it: past the end of the store they reach the memory behind it
ParticleAccessed(end2, garbage) ==
    [i \in DOMAIN particle \cup {end2} |-> IF i \in DOMAIN particle THEN particle[i] ELSE garbage]

InitIntegrity ==
    /\ surfaceProps \in [{0} -> ForceSurfaces]
    \* the partner of the contact: the owner itself, a particle of the store, an
    \* id past the end of the store
    /\ \E gapn \in ForceGaps, mo \in ForceMotions, old \in ForceOverlaps,
          end2 \in {0, 1, 2} :
          /\ contact = [nc |-> 0, end1 |-> 0, end2 |-> end2, gapn |-> gapn,
                        distance |-> RAdd(ForceRadius, gapn), norm |-> ForceNormal,
                        cpos |-> ForceCpos(gapn), dt |-> R(1), old |-> old]
          /\ particle = [i \in {0, 1} |->
                            IF i = 0 THEN Body(ForcePos1(gapn), mo[1], mo[2])
                                     ELSE Body(ZEROVEC3f, ZEROVEC3f, ZEROVEC3f)]
          /\ cplist = [i \in {0} |->
                          [NoContact EXCEPT !.endID2 = end2, !.oldTangOverlap = old]]
    /\ mpm = <<>>
    /\ wall = <<>>
    /\ assembled = "none"
    /\ NoTable
    /\ NoMaterial
    /\ NoPass
    /\ NoStores
    /\ NoRebuild

\* the kernel hands the contact to _particle_particle_force_assemble, which
\* has no check of its endpoints (Linear.py 196-236)
HandToParticleParticleForceAssemble ==
    /\ assembled = "none"
    /\ \E garbage \in GarbageBodies :
          \E accessed \in {ParticleAccessed(contact.end2, garbage)} :
              /\ \E v_rel \in {VSub(PointVelocity(accessed[contact.end1], contact.cpos),
                                    PointVelocity(accessed[contact.end2], contact.cpos))} :
                    LawEvaluable(surfaceProps[0],
                                 EffectiveValue(accessed[contact.end1].m, accessed[contact.end2].m),
                                 contact.norm, v_rel, contact.dt, contact.old)
              /\ \E r \in {_particle_particle_force_assemble(surfaceProps[0], contact.nc,
                            contact.end1, contact.end2, contact.gapn, contact.norm,
                            contact.cpos, contact.dt, accessed, cplist)} :
                    \* what is written past the end of the store is not part of it
                    /\ particle' = [i \in DOMAIN particle |-> r.particle[i]]
                    /\ cplist' = r.cplist
    /\ assembled' = "pp"
    /\ UNCHANGED <<surfaceProps, mpm, wall, contact, tableVars, passVars, materialVars, storeVars, rebuildVars>>

\* a build with the bounds checks of the runtime stops at the access
\* particle[end2] past the end of the store
OutOfRangeAccessChecked ==
    /\ assembled = "none"
    /\ contact.end2 \notin DOMAIN particle
    /\ assembled' = "aborted"
    /\ err' = "out_of_range"
    /\ UNCHANGED <<surfaceProps, particle, mpm, wall, cplist, contact, tableVars, passVars, materialVars,
                   hist_cplist, pcontact, mode, phase, overlaps, rebuildVars>>

NextIntegrity == HandToParticleParticleForceAssemble \/ OutOfRangeAccessChecked

SpecIntegrity == InitIntegrity /\ [][NextIntegrity]_vars

C11Malformed == contact.end1 = contact.end2 \/ contact.end2 \notin DOMAIN particle

\* C11: when the contact handed to the Force Assembler has identical
\* endpoints or a partner id outside the store, the pass ends in a fatal
\* error and no force or moment of the contact is accumulated onto a body.
C11_IntegrityFaultAborts ==
    (C11Malformed /\ assembled # "none") =>
        /\ err # "none"
        /\ \A i \in DOMAIN particle :
              particle[i].contact_force = ZEROVEC3f /\ particle[i].contact_torque = ZEROVEC3f

(***************************************************************************)
(* The two strategies side by side: cplist[s], hist_cplist[s], pcontact[s] *)
(* and phase[s] belong to the model that runs strategy s, overlaps[s] are  *)
(* the old overlaps its last force evaluation read.                        *)
(***************************************************************************)
Strategies == {"rebuild", "bit_table"}

\* the neighbour search of one model, as in BroadPhase
NeighbourSearched(pc, class, potential_list) ==
    IF class = "pp"
    THEN [pc EXCEPT !.hist_particle_particle = pc.particle_particle,
                    !.particle_particle = Cumulative(potential_list),
                    !.potential_list_particle_particle = potential_list]
    ELSE [pc EXCEPT !.hist_particle_wall = pc.particle_wall,
                    !.particle_wall = Cumulative(potential_list),
                    !.potential_list_particle_wall = potential_list]

SelfOf(s) ==
    [cplist |-> cplist[s], hist_cplist |-> hist_cplist[s],
     active_contactNum |-> IF mode.class = "pp" THEN pcontact[s].hist_particle_particle
                           ELSE pcontact[s].hist_particle_wall]

InitEquivalence ==
    /\ mode \in [class : {"pp", "pw"}, strategy : {"both"}]
    /\ cplist = [s \in Strategies |-> [k \in 0 .. StoreSize(mode.class) - 1 |-> ZeroContact]]
    /\ hist_cplist = [s \in Strategies |-> [k \in 0 .. StoreSize(mode.class) - 1 |-> ZeroHistory]]
    /\ pcontact = [s \in Strategies |->
                    [particle_particle |-> [i \in 0 .. particleNum |-> 0],
                     hist_particle_particle |-> [i \in 0 .. particleNum |-> 0],
                     potential_list_particle_particle |-> [i \in Owners(particleNum) |-> <<>>],
                     particle_wall |-> [i \in 0 .. particleNum |-> 0],
                     hist_particle_wall |-> [i \in 0 .. particleNum |-> 0],
                     potential_list_particle_wall |-> [i \in Owners(particleNum) |-> <<>>]]]
    /\ phase = [s \in Strategies |-> "candidates"]
    /\ err = "none"
    /\ overlaps = [s \in Strategies |-> NoOverlaps]
    /\ surfaceProps = <<>>
    /\ particle = <<>>
    /\ mpm = <<>> /\ wall = <<>> /\ contact = <<>> /\ assembled = "none"
    /\ NoTable
    /\ NoMaterial
    /\ NoPass
    /\ NoRebuild

\* both models are given the same candidate table, every owner of which is
\* within the size of the bit table
SameCandidates ==
    /\ \A s \in Strategies : phase[s] = "candidates"
    /\ err = "none"
    /\ \E potential_list \in CandidateTables :
          /\ ~ExceedsCapacity(Capacity(mode.class), particleNum, potential_list)
          /\ pcontact' = [s \in Strategies |->
                            NeighbourSearched(pcontact[s], mode.class, potential_list)]
    /\ phase' = [s \in Strategies |-> "resolve"]
    /\ UNCHANGED <<cplist, hist_cplist, mode, err, overlaps, otherVars>>

RebuildUpdatesParticleParticle ==
    /\ mode.class = "pp"
    /\ phase["rebuild"] = "resolve"
    /\ \E r \in {update_particle_particle_contact_table(SelfOf("rebuild"), Sims, Scene, pcontact["rebuild"])} :
          /\ cplist' = [cplist EXCEPT !["rebuild"] = r.cplist]
          /\ hist_cplist' = [hist_cplist EXCEPT !["rebuild"] = r.hist_cplist]
          /\ err' = r.err
          /\ phase' = [phase EXCEPT !["rebuild"] = "assemble"]
    /\ UNCHANGED <<pcontact, mode, overlaps, otherVars>>

RebuildUpdatesParticleWall ==
    /\ mode.class = "pw"
    /\ phase["rebuild"] = "resolve"
    /\ \E r \in {update_particle_wall_contact_table(SelfOf("rebuild"), Sims, Scene, pcontact["rebuild"])} :
          /\ cplist' = [cplist EXCEPT !["rebuild"] = r.cplist]
          /\ hist_cplist' = [hist_cplist EXCEPT !["rebuild"] = r.hist_cplist]
          /\ err' = r.err
          /\ phase' = [phase EXCEPT !["rebuild"] = "assemble"]
    /\ UNCHANGED <<pcontact, mode, overlaps, otherVars>>

RebuildTacklesParticleParticle ==
    /\ mode.class = "pp"
    /\ phase["rebuild"] = "assemble"
    /\ \E r \in {tackle_particle_particle_contact_cplist(SelfOf("rebuild"), Sims, Scene, pcontact["rebuild"])} :
          /\ cplist' = [cplist EXCEPT !["rebuild"] = r.cplist]
          /\ overlaps' = [overlaps EXCEPT !["rebuild"] = r.tangOverlapOld]
          /\ phase' = [phase EXCEPT !["rebuild"] = "candidates"]
    /\ UNCHANGED <<hist_cplist, pcontact, mode, err, otherVars>>

RebuildTacklesParticleWall ==
    /\ mode.class = "pw"
    /\ phase["rebuild"] = "assemble"
    /\ \E r \in {tackle_particle_wall_contact_cplist(SelfOf("rebuild"), Sims, Scene, pcontact["rebuild"])} :
          /\ cplist' = [cplist EXCEPT !["rebuild"] = r.cplist]
          /\ overlaps' = [overlaps EXCEPT !["rebuild"] = r.tangOverlapOld]
          /\ phase' = [phase EXCEPT !["rebuild"] = "candidates"]
    /\ UNCHANGED <<hist_cplist, pcontact, mode, err, otherVars>>

BitTableTacklesParticleParticle ==
    /\ mode.class = "pp"
    /\ phase["bit_table"] = "resolve"
    /\ \E r \in {tackle_particle_particle_contact_bit_table(SelfOf("bit_table"), Sims, Scene, pcontact["bit_table"])} :
          /\ cplist' = [cplist EXCEPT !["bit_table"] = r.cplist]
          /\ hist_cplist' = [hist_cplist EXCEPT !["bit_table"] = r.hist_cplist]
          /\ overlaps' = [overlaps EXCEPT !["bit_table"] = r.tangOverlapOld]
          /\ phase' = [phase EXCEPT !["bit_table"] = "candidates"]
    /\ UNCHANGED <<pcontact, mode, err, otherVars>>

BitTableTacklesParticleWall ==
    /\ mode.class = "pw"
    /\ phase["bit_table"] = "resolve"
    /\ \E r \in {tackle_particle_wall_contact_bit_table(SelfOf("bit_table"), Sims, Scene, pcontact["bit_table"])} :
          /\ cplist' = [cplist EXCEPT !["bit_table"] = r.cplist]
          /\ hist_cplist' = [hist_cplist EXCEPT !["bit_table"] = r.hist_cplist]
          /\ overlaps' = [overlaps EXCEPT !["bit_table"] = r.tangOverlapOld]
          /\ phase' = [phase EXCEPT !["bit_table"] = "candidates"]
    /\ UNCHANGED <<pcontact, mode, err, otherVars>>

NextEquivalence ==
    \/ SameCandidates
    \/ RebuildUpdatesParticleParticle
    \/ RebuildUpdatesParticleWall
    \/ RebuildTacklesParticleParticle
    \/ RebuildTacklesParticleWall
    \/ BitTableTacklesParticleParticle
    \/ BitTableTacklesParticleWall

SpecEquivalence == InitEquivalence /\ [][NextEquivalence]_vars

\* the set of (owner, partner, stored overlap) of the active records of a model
C13Contacts(s) ==
    { <<PairOf(cplist[s][k]), cplist[s][k].oldTangOverlap>> :
        k \in ActiveSlots(IF mode.class = "pp" THEN pcontact[s].particle_particle
                          ELSE pcontact[s].particle_wall, particleNum) }

C13BothEvaluated == \A s \in Strategies : phase[s] = "candidates"

\* C13: started from the same state and given the same candidate tables, all
\* within the size of the bit table, the two strategies hold after every step
\* the same set of (owner, partner, stored overlap), and their force
\* evaluations have read the same old overlap for every pair, so that the
\* forces and moments they accumulate are the same.
C13_StrategyEquivalence ==
    C13BothEvaluated =>
        /\ C13Contacts("rebuild") = C13Contacts("bit_table")
        /\ overlaps["rebuild"] = overlaps["bit_table"]

\* after a step in which a pair was carried with its overlap, the two stores
\* hold the same contacts in different slots
C13_Witness ==
    /\ C13BothEvaluated
    /\ C13Contacts("rebuild") = C13Contacts("bit_table")
    /\ \E pair \in DOMAIN overlaps["rebuild"] :
          /\ overlaps["rebuild"][pair] # ZEROVEC3f
          /\ overlaps["bit_table"][pair] = overlaps["rebuild"][pair]
    /\ \E k \in DOMAIN cplist["rebuild"] :
          /\ <<PairOf(cplist["rebuild"][k]), cplist["rebuild"][k].oldTangOverlap>>
                \in C13Contacts("rebuild")
          /\ PairOf(cplist["rebuild"][k]) # PairOf(cplist["bit_table"][k])

(***************************************************************************)
(* SpecMaterial: the state variables of a material are exported for a      *)
(* range of material points, the simulation goes on (or a new one starts   *)
(* from other values), and the export is reloaded.                         *)
(***************************************************************************)
MaterialModels == {"DruckerPrager", "ElasticPerfectlyPlastic"}

\* ULStateVariable: epstrain, estress
StateValues == [epstrain : {0, 1}, estress : {0, 2}]

InitMaterial ==
    /\ material \in MaterialModels
    /\ stateVars \in [0 .. max_particle_num - 1 -> StateValues]
    /\ state_vars = <<>>
    /\ roundTrip = [phase |-> "simulated", start |-> 0, end |-> 0, before |-> <<>>]
    /\ surfaceProps = <<>>
    /\ particle = <<>>
    /\ NoContactState
    /\ NoTable
    /\ NoPass
    /\ NoStores
    /\ NoRebuild

\* the writer: the dictionary of a range is saved, np.load gives it back as a
\* 0-d object array
GetStateVarsDict ==
    /\ roundTrip.phase = "simulated"
    /\ \E start_particle \in 0 .. max_particle_num, end_particle \in 0 .. max_particle_num :
          /\ start_particle <= end_particle
          /\ state_vars' = [item |-> get_state_vars_dict([stateVars |-> stateVars],
                                                         start_particle, end_particle)]
          /\ roundTrip' = [roundTrip EXCEPT !.phase = "exported", !.start = start_particle,
                                            !.end = end_particle]
    /\ UNCHANGED <<material, stateVars, surfaceProps, particle, contactVars, tableVars,
                   passVars, storeVars, rebuildVars>>

\* ULStateVariable._update_vars: a stress update gives a material point a new
\* equivalent stress and a new plastic strain
UpdateVars ==
    /\ roundTrip.phase = "exported"
    /\ \E np \in DOMAIN stateVars, value \in StateValues :
          stateVars' = [stateVars EXCEPT ![np] = value]
    /\ UNCHANGED <<material, state_vars, roundTrip, surfaceProps, particle, contactVars,
                   tableVars, passVars, storeVars, rebuildVars>>

ReloadStateVariables ==
    /\ roundTrip.phase = "exported"
    /\ stateVars' = reload_state_variables([stateVars |-> stateVars], state_vars)
    /\ roundTrip' = [roundTrip EXCEPT !.phase = "reloaded", !.before = stateVars]
    /\ UNCHANGED <<material, state_vars, surfaceProps, particle, contactVars, tableVars,
                   passVars, storeVars, rebuildVars>>

NextMaterial == GetStateVarsDict \/ UpdateVars \/ ReloadStateVariables

SpecMaterial == InitMaterial /\ [][NextMaterial]_vars

\* C21: after reload_state_variables is given the result of
\* get_state_vars_dict(start, end), the material points start .. end-1 hold the
\* exported estress and epstrain and every other material point holds what it
\* held before the reload, for either material class.
C21_StateRoundTrip ==
    roundTrip.phase = "reloaded" =>
        \A np \in DOMAIN stateVars :
            IF roundTrip.start <= np /\ np < roundTrip.end
            THEN /\ stateVars[np].estress = state_vars.item.estress[np - roundTrip.start]
                 /\ stateVars[np].epstrain = state_vars.item.epstrain[np - roundTrip.start]
            ELSE stateVars[np] = roundTrip.before[np]

====
